---- MODULE Spec2Model ----
(***************************************************************************)
(* Group conversation orchestration of blyrin-bot: the per-group           *)
(* processing lock and bounded queue (group-queue), the cooldown window    *)
(* (message-aggregator), the durable context with its compression, and     *)
(* handleGroupMessage / processReply which wire them together.             *)
(*                                                                         *)
(* All module state of the program is keyed by groupId and no operation on *)
(* one group reads or writes another group's entry (clearAllQueues and     *)
(* clearAllPendingReplies apply the same per-entry effect to every entry), *)
(* so the model follows one whitelisted, enabled group.                    *)
(*                                                                         *)
(* One action is one turn of the Node.js event loop: a callback runs from  *)
(* the point where it is resumed to the next point where it waits for I/O, *)
(* a timer or setImmediate.  An await of an already settled promise only   *)
(* yields to the microtask queue, so it does not end an action.            *)
(***************************************************************************)
EXTENDS Integers, Sequences, FiniteSets, TLC

\* ------------------------------------------------------------------ bounds
MaxEvents == 3
MaxBurstEvents == 4
NumUsers == 2
MaxToolRounds == 1
MaxDisconnects == 1
MaxImageEvents == 1
MaxApiCalls == 12
CooldownTicks == 1
MaxConfig == 4
MaxStored == 4
MaxContextCalls == 3
MaxSegments == 2
RandomSteps == 2
MaxResponses == 3
MaxCallsPerRound == 2
MaxTurns == 4
MaxToolCallIds == 2
MaxPolicyEvents == 2
MaxRequested == 3
MaxConnectionCalls == 4
MaxReconnectAttempts == 3

\* -------------------------------------------------------- program constants
MAX_QUEUE_SIZE == 10

\* the largest and the default number of rounds of a subagent
MAX_ROUNDS == 50
DEFAULT_ROUNDS == 10

\* the largest compressionThreshold the configuration accepts
THRESHOLD_MAX == 1000

\* configuration values of the modelled group (config.context.*)
CompressionThreshold == 3
MaxMessages == 3

NULL == 0
Events == 1..MaxBurstEvents
Users == 1..NumUsers

VARIABLES
  connected,      \* client # null
  whitelisted,    \* isGroupWhitelisted(groupId)
  groupEnabled,   \* groupSettings.enabled of the group
  cooldownMs,     \* groupSettings.aggregationCooldown of the group
  compressionThreshold, \* config.context.compressionThreshold
  maxMessages,    \* config.context.maxMessages
  toolsEnabled,   \* some tool is enabled (toOpenAITools() is not empty)
  arrived,        \* number of inbound events delivered so far
  evUser,         \* event.user_id of each delivered event
  evWindow,       \* the trigger of the window pending when each event arrived
  route,          \* what handleGroupMessage did with each event
  hpc,            \* where each handleGroupMessage invocation waits
  snap,           \* locals of a suspended checkAndCompress
  history,        \* context.messages of the group in the database
  memory,         \* the group's memory summary in the database
  groupQueues,    \* the group's GroupQueueState (or none)
  aborted,        \* abort controllers whose abort() was called
  pendingReplies, \* the group's PendingReply (or none)
  immediates,     \* setImmediate callbacks not yet run
  gpc,            \* where each processReply invocation waits
  gctx,           \* contextMessages each processReply read
  gmsgs,          \* toolMessages of each running chat
  ground,         \* tool round of each running chat
  rounds,         \* tool rounds the model has requested so far
  gfin,           \* finishProcessing calls made by each processReply
  sent,           \* final replies handed to client.sendGroupMessage
  disconnects,    \* disconnectBot calls so far
  reconnectTimer, \* the reconnect timer is set and has not fired
  reconnectAttempt, \* reconnectAttempt
  isConnecting,   \* isConnecting: a doConnect has not settled
  linkOpen,       \* the connection of client to the server is open
  timerAwaiting,  \* the reconnect timer's callback awaits connectBot
  imgs,           \* delivered events that carried images
  api,            \* the last direct call of a module's API, and its count
  chat,           \* the locals of a chatCore call made directly, and its log
  invoked,        \* calls of the handler passed to scheduleReply
  dropped,        \* queued events evicted by overflow or dropped by a clear
  enqLog,         \* the events handleGroupMessage enqueued, in order
  handLog         \* the events the setImmediate callback started, in order

cfgVars == <<whitelisted, groupEnabled, cooldownMs, compressionThreshold, maxMessages,
            toolsEnabled, api, chat, invoked>>
logVars == <<dropped, enqLog, handLog>>
linkVars == <<reconnectTimer, reconnectAttempt, isConnecting, linkOpen, timerAwaiting>>
connVars == <<connected, disconnects, linkVars>>
evVars == <<arrived, evUser, evWindow, imgs>>
hVars == <<hpc, snap>>
dbVars == <<history, memory>>
genVars == <<gpc, gctx, gmsgs, ground>>

vars == <<cfgVars, logVars, connVars, evVars, hVars, dbVars, genVars, route,
          groupQueues, aborted, pendingReplies, immediates, rounds, gfin, sent>>

\* ------------------------------------------------------------ group-queue
NoState == [exists |-> FALSE, processing |-> FALSE, currentUserId |-> NULL,
            abortController |-> NULL, queue |-> <<>>]

getOrCreateState(st) ==
  IF st.exists THEN st ELSE [NoState EXCEPT !.exists = TRUE]

isGroupProcessing(st) == st.exists /\ st.processing

getCurrentProcessingUserId(st) == IF st.exists THEN st.currentUserId ELSE NULL

\* a faulty variant: the capacity test is off by one
enqueueMessage_offByOne(st, ev) ==
  LET s == getOrCreateState(st)
      q == IF Len(s.queue) > MAX_QUEUE_SIZE THEN Tail(s.queue) ELSE s.queue
  IN  [s EXCEPT !.queue = Append(q, ev)]

enqueueMessage(st, ev) ==
  LET s == getOrCreateState(st)
      q == IF Len(s.queue) >= MAX_QUEUE_SIZE THEN Tail(s.queue) ELSE s.queue
  IN  [s EXCEPT !.queue = Append(q, ev)]

\* the queued event enqueueMessage drops
evicted(st) ==
  IF st.exists /\ Len(st.queue) >= MAX_QUEUE_SIZE THEN {Head(st.queue)} ELSE {}

startProcessing(st, userId, ctl) ==
  [getOrCreateState(st) EXCEPT !.processing = TRUE,
                               !.currentUserId = userId,
                               !.abortController = ctl]

\* the controllers abortCurrentProcessing calls abort() on
abortCurrentProcessing(st) ==
  IF st.exists /\ st.processing /\ st.abortController # NULL
    THEN {st.abortController} ELSE {}

\* a faulty variant: the abort controller is left in place
finishProcessing_keepsController(st) ==
  IF ~st.exists THEN [state |-> st, next |-> NULL]
  ELSE [state |-> [st EXCEPT !.processing = FALSE, !.currentUserId = NULL,
                             !.queue = IF st.queue = <<>> THEN <<>>
                                       ELSE Tail(st.queue)],
        next |-> IF st.queue = <<>> THEN NULL ELSE Head(st.queue)]

finishProcessing(st) ==
  IF ~st.exists THEN [state |-> st, next |-> NULL]
  ELSE [state |-> [st EXCEPT !.processing = FALSE, !.currentUserId = NULL,
                             !.abortController = NULL,
                             !.queue = IF st.queue = <<>> THEN <<>>
                                       ELSE Tail(st.queue)],
        next |-> IF st.queue = <<>> THEN NULL ELSE Head(st.queue)]

\* the controllers a clear calls abort() on
clearAborts(st) ==
  IF st.exists /\ st.abortController # NULL THEN {st.abortController} ELSE {}

clearGroupQueue(st) ==
  IF ~st.exists THEN st
  ELSE [st EXCEPT !.processing = FALSE, !.currentUserId = NULL,
                  !.abortController = NULL, !.queue = <<>>]

clearAllQueues(st) == NoState

\* ---------------------------------------------------------------- context
UserMsg(e) == [role |-> "user", ev |-> e, tc |-> 0]
BotMsg(e) == [role |-> "assistant", ev |-> e, tc |-> 0]
ToolCallMsg(e, r) == [role |-> "assistant", ev |-> e, tc |-> r]
ToolMsg(e, r) == [role |-> "tool", ev |-> e, tc |-> r]
SummaryMsg(mem) == [role |-> "system", ev |-> 0, tc |-> 0, summary |-> mem]

\* a faulty variant: the new message is put in front
addMessage_atFront(hist, msg) == <<msg>> \o hist

addMessage(hist, msg) == Append(hist, msg)

AppendAll(hist, msgs) == hist \o msgs

\* Array.prototype.slice(0, -k) and slice(-k); -0 is 0 in both
sliceHead(s, k) ==
  IF k = 0 THEN <<>>
  ELSE IF k >= Len(s) THEN <<>> ELSE SubSeq(s, 1, Len(s) - k)

sliceTail(s, k) ==
  IF k = 0 THEN s
  ELSE IF k >= Len(s) THEN s ELSE SubSeq(s, Len(s) - k + 1, Len(s))

keepCount == maxMessages \div 3

getContextMessages(hist, mem) ==
  LET recent == sliceTail(hist, maxMessages)
  IN  IF mem # <<>> THEN <<SummaryMsg(mem)>> \o recent ELSE recent

\* checkAndCompress up to its await: does it go on to summarize?
compressNeeded(hist, threshold) ==
  /\ Len(hist) >= threshold
  /\ sliceHead(hist, keepCount) # <<>>

NoSnap == [backup |-> <<>>, toKeep |-> <<>>, toCompress |-> <<>>,
           existingMemory |-> <<>>, outcome |-> "none"]

takeSnapshot(hist, mem) ==
  [backup |-> hist, toKeep |-> sliceTail(hist, keepCount),
   toCompress |-> sliceHead(hist, keepCount), existingMemory |-> mem,
   outcome |-> "none"]

\* ------------------------------------------------------ message-aggregator
NoPending == [exists |-> FALSE, triggerEvent |-> NULL, aggregatedEvents |-> <<>>,
              timer |-> 0, processing |-> FALSE]

isGroupInCooldown(pend) == pend.exists

\* a faulty variant: a later call restarts the timer
scheduleReply_restartsTimer(pend, ev, cd) ==
  IF pend.exists
    THEN [pending |-> [pend EXCEPT !.aggregatedEvents = Append(@, ev),
                                   !.timer = cd],
          result |-> FALSE]
    ELSE [pending |-> [exists |-> TRUE, triggerEvent |-> ev,
                       aggregatedEvents |-> <<>>, timer |-> cd,
                       processing |-> FALSE],
          result |-> TRUE]

\* scheduleReply: the new PendingReply and the value returned
scheduleReply(pend, ev, cd) ==
  IF pend.exists
    THEN [pending |-> [pend EXCEPT !.aggregatedEvents = Append(@, ev)],
          result |-> FALSE]
    ELSE [pending |-> [exists |-> TRUE, triggerEvent |-> ev,
                       aggregatedEvents |-> <<>>, timer |-> cd,
                       processing |-> FALSE],
          result |-> TRUE]

\* the timer callback's guard: the window is there and not being processed
timerMayInvoke(pend) == pend.exists /\ ~pend.processing /\ pend.timer = 0

\* the timer callback from its guard to the call of the handler: the
\* PendingReply the map holds when the handler is called (atHandler) and when
\* the callback is done with the map (pending)
timerCallback(pend) ==
  IF ~pend.exists \/ pend.processing
    THEN [invokes |-> FALSE, atHandler |-> pend, pending |-> pend]
    ELSE LET deleted == NoPending
         IN  [invokes |-> TRUE, atHandler |-> deleted, pending |-> deleted]

\* a faulty variant: the window is reported cancelled but stays in the map
cancelPendingReply_keepsWindow(pend) ==
  IF pend.exists THEN [pending |-> pend, result |-> TRUE]
  ELSE [pending |-> pend, result |-> FALSE]

cancelPendingReply(pend) ==
  IF pend.exists THEN [pending |-> NoPending, result |-> TRUE]
  ELSE [pending |-> pend, result |-> FALSE]

addToAggregation(pend, ev) ==
  IF pend.exists
    THEN [pending |-> [pend EXCEPT !.aggregatedEvents = Append(@, ev)],
          result |-> TRUE]
    ELSE [pending |-> pend, result |-> FALSE]

\* ------------------------------------------------------------- ai: chat
\* the content of a model response: none, only white space, or the text of
\* the i-th response with white space around it; Text(i) is that text trimmed
Empty == [kind |-> "empty", n |-> 0]
Blank == [kind |-> "blank", n |-> 0]
Raw(i) == [kind |-> "raw", n |-> i]
Text(i) == [kind |-> "text", n |-> i]

\* String.prototype.trim
trim(content) ==
  CASE content.kind = "blank" -> Empty
    [] content.kind = "raw" -> Text(content.n)
    [] OTHER -> content

\* a string is truthy when it is not ""
truthy(content) == content.kind # "empty"

ToolNames == {"A", "B"}
Arguments == {"json", "bad"}

\* a faulty variant: arguments that do not parse make the call fail
parseArguments_failsOnBad(arguments) ==
  IF arguments = "json" THEN "parsed" ELSE "failed"

\* JSON.parse of toolCall.function.arguments under its try/catch: the parsed
\* object, or the {} that args was initialised with
parseArguments(arguments) ==
  IF arguments = "json" THEN "parsed" ELSE "empty"

\* a chatCore call that has not begun
NoChat ==
  [pc |-> "idle", inLoop |-> FALSE, toolContext |-> FALSE,
   onIntermediateOutput |-> FALSE, toolMessages |-> <<>>,
   currentToolCalls |-> <<>>, idx |-> 0, round |-> 0, responses |-> <<>>,
   result |-> [content |-> Empty, toolMessages |-> <<>>, aborted |-> FALSE],
   executed |-> <<>>, modelCalls |-> <<>>, delivered |-> <<>>]

AssistantCalls(toolCalls) ==
  [role |-> "assistant", content |-> NULL, tool_calls |-> toolCalls]
ToolResult(toolCall) ==
  [role |-> "tool", content |-> toolCall.name, tool_call_id |-> toolCall.id]
AssistantText(content) ==
  [role |-> "assistant", content |-> content, tool_calls |-> <<>>]

\* a return of chatCore or of handleToolCallsLoop
chatReturn(c, content, abrt) ==
  [c EXCEPT !.pc = "returned",
            !.result = [content |-> content,
                        toolMessages |-> IF c.inLoop THEN c.toolMessages ELSE <<>>,
                        aborted |-> abrt]]

\* a faulty variant: the tool schemas are attached whenever a tool is enabled
hasTools_withoutContext(enabled, toolContext) == enabled

\* chatCore: tools.length > 0 && toolContext
hasTools(enabled, toolContext) == enabled /\ toolContext

\* callOpenAI up to its fetch: it throws when the signal is already aborted
callOpenAI(c, tools, ab) ==
  IF ab THEN [c EXCEPT !.pc = "thrown"]
  ELSE [c EXCEPT !.pc = "model",
                 !.modelCalls = Append(@, [tools |-> tools, aborted |-> ab])]

\* handleToolCallsLoop from the head of its for loop to the next await: the
\* executeTool of the next tool call, or after the last one the next
\* callOpenAI
forStep(c, tools, ab) ==
  IF c.idx > Len(c.currentToolCalls)
    THEN IF ab THEN chatReturn(c, Empty, TRUE) ELSE callOpenAI(c, tools, ab)
  ELSE IF ab THEN chatReturn(c, Empty, TRUE)
  ELSE LET toolCall == c.currentToolCalls[c.idx]
       IN  [c EXCEPT !.pc = "tool",
                     !.executed = Append(@, [id |-> toolCall.id,
                                             name |-> toolCall.name,
                                             args |-> parseArguments(toolCall.arguments),
                                             aborted |-> ab])]

\* handleToolCallsLoop from the head of its while loop to the next await
loopTop(c, tools, ab) ==
  IF c.currentToolCalls = <<>> THEN chatReturn(c, Empty, FALSE)
  ELSE IF ab THEN chatReturn([c EXCEPT !.round = @ + 1], Empty, TRUE)
  ELSE forStep([c EXCEPT !.round = @ + 1,
                         !.toolMessages = Append(@, AssistantCalls(c.currentToolCalls)),
                         !.idx = 1],
               tools, ab)

\* handleToolCallsLoop after the intermediate output: the next round, or the
\* return of the final content
nextOrReturn(c, response, tools, ab) ==
  IF response.toolCalls # <<>>
    THEN loopTop([c EXCEPT !.currentToolCalls = response.toolCalls], tools, ab)
    ELSE chatReturn(c, response.content, FALSE)

\* a faulty variant: the text that comes with tool calls is not recorded
afterIntermediate_notRecorded(c, tools, ab) ==
  LET response == c.responses[Len(c.responses)]
  IN  nextOrReturn(c, response, tools, ab)

\* handleToolCallsLoop from the return of onIntermediateOutput on
afterIntermediate(c, tools, ab) ==
  LET response == c.responses[Len(c.responses)]
      trimmed == trim(response.content)
  IN  nextOrReturn([c EXCEPT !.toolMessages = Append(@, AssistantText(trimmed))],
                   response, tools, ab)

\* chatCore or handleToolCallsLoop from the return of callOpenAI on
afterModel(c, response, tools, ab) ==
  LET d == [c EXCEPT !.responses = Append(@, response)]
  IN  IF ~c.inLoop
        THEN IF ab THEN chatReturn(d, Empty, TRUE)
             ELSE IF response.toolCalls # <<>> /\ c.toolContext
               THEN loopTop([d EXCEPT !.inLoop = TRUE,
                                      !.currentToolCalls = response.toolCalls],
                            tools, ab)
             ELSE chatReturn(d, response.content, FALSE)
      ELSE IF truthy(response.content) /\ c.onIntermediateOutput
                /\ truthy(trim(response.content)) /\ response.toolCalls # <<>>
        THEN [d EXCEPT !.pc = "intermediate",
                       !.delivered = Append(@, trim(response.content))]
      ELSE nextOrReturn(d, response, tools, ab)

\* ------------------------------------------------------------------- Init
Range(s) == {s[i] : i \in 1..Len(s)}

\* no direct API call yet.  n: calls so far; op, arg, result: the last call;
\* prev, prevPending: the state it was made in; first: the event of the first
\* scheduleReply call since the group last had no window; created, cancelled:
\* windows created and windows removed without their handler being invoked
NoCall == [n |-> 0, op |-> "none", arg |-> NULL, result |-> FALSE,
           prev |-> NoState, prevPending |-> NoPending, first |-> NULL,
           created |-> 0, cancelled |-> 0]

\* the module state when the server has started and the bot is connected
InitModule(tools) ==
  /\ connected = TRUE
  /\ cooldownMs \in {0, CooldownTicks}
  /\ toolsEnabled = tools
  /\ arrived = 0
  /\ evUser = [e \in Events |-> NULL]
  /\ evWindow = [e \in Events |-> NULL]
  /\ route = [e \in Events |-> "pending"]
  /\ hpc = [e \in Events |-> "idle"]
  /\ snap = [e \in Events |-> NoSnap]
  /\ groupQueues = NoState
  /\ aborted = {}
  /\ pendingReplies = NoPending
  /\ immediates = <<>>
  /\ gpc = [e \in Events |-> "none"]
  /\ gctx = [e \in Events |-> <<>>]
  /\ gmsgs = [e \in Events |-> <<>>]
  /\ ground = [e \in Events |-> 0]
  /\ rounds = 0
  /\ gfin = [e \in Events |-> 0]
  /\ sent = {}
  /\ disconnects = 0
  /\ reconnectTimer = FALSE
  /\ reconnectAttempt = 0
  /\ isConnecting = FALSE
  /\ linkOpen = TRUE
  /\ timerAwaiting = FALSE
  /\ imgs = 0
  /\ invoked = <<>>
  /\ dropped = {}
  /\ enqLog = <<>>
  /\ handLog = <<>>

\* the same, for a group that is whitelisted and whose settings enable it
InitIdle(tools) ==
  /\ whitelisted = TRUE
  /\ groupEnabled = TRUE
  /\ InitModule(tools)

\* a group that has no messages stored yet
InitWith(threshold, tools) ==
  /\ compressionThreshold = threshold
  /\ maxMessages = MaxMessages
  /\ history = <<>>
  /\ memory = <<>>
  /\ api = NoCall
  /\ chat = NoChat
  /\ InitIdle(tools)

\* a group whose history stays below the compression threshold, with tools
Init == InitWith(THRESHOLD_MAX, TRUE)

\* a group whose history reaches the compression threshold, without tools
InitCompress == InitWith(CompressionThreshold, FALSE)

\* ----------------------------------------------------------- processReply
\* the part of hist up to and including the message of event e
upToEvent(hist, e) ==
  IF \E i \in 1..Len(hist) : hist[i] = UserMsg(e)
    THEN SubSeq(hist, 1, CHOOSE i \in 1..Len(hist) : hist[i] = UserMsg(e))
    ELSE hist

\* a faulty variant: the model is given the history as of the trigger's arrival
StartGen_historyAtArrival(e, user, st, hist, mem) ==
  /\ groupQueues' = startProcessing(st, user, e)
  /\ gpc' = [gpc EXCEPT ![e] = "model"]
  /\ gctx' = [gctx EXCEPT ![e] = getContextMessages(upToEvent(hist, e), mem)]
  /\ gmsgs' = [gmsgs EXCEPT ![e] = <<>>]
  /\ ground' = [ground EXCEPT ![e] = 0]

\* processReply from its first line to the fetch of the first model call
StartGen(e, user, st, hist, mem) ==
  /\ groupQueues' = startProcessing(st, user, e)
  /\ gpc' = [gpc EXCEPT ![e] = "model"]
  /\ gctx' = [gctx EXCEPT ![e] = getContextMessages(hist, mem)]
  /\ gmsgs' = [gmsgs EXCEPT ![e] = <<>>]
  /\ ground' = [ground EXCEPT ![e] = 0]

\* finishProcessing and the setImmediate of the finally block
finishAndHandOff(st, imm) ==
  LET r == finishProcessing(st)
  IN  [state |-> r.state,
       immediates |-> IF r.next # NULL THEN Append(imm, r.next) ELSE imm]

\* a faulty variant: an interrupted processReply returns without its finally
EndGen_notWhenAborted(g) ==
  LET r == finishAndHandOff(groupQueues, immediates)
  IN  /\ gpc' = [gpc EXCEPT ![g] = "done"]
      /\ IF g \in aborted
           THEN UNCHANGED <<groupQueues, immediates, gfin>>
           ELSE /\ groupQueues' = r.state
                /\ immediates' = r.immediates
                /\ gfin' = [gfin EXCEPT ![g] = @ + 1]

\* the finally block of processReply
EndGen(g) ==
  LET r == finishAndHandOff(groupQueues, immediates)
  IN  /\ groupQueues' = r.state
      /\ immediates' = r.immediates
      /\ gpc' = [gpc EXCEPT ![g] = "done"]
      /\ gfin' = [gfin EXCEPT ![g] = @ + 1]

\* ----------------------------------------------------- handleGroupMessage
\* a faulty variant: a cooldown of 0 opens a window as well
handleRoute_windowAtZero(trig, user, st, pend, cd) ==
  IF isGroupInCooldown(pend) THEN IF trig THEN "aggregated" ELSE "cooldown"
  ELSE IF ~trig THEN "noreply"
  ELSE IF isGroupProcessing(st)
    THEN IF getCurrentProcessingUserId(st) = user THEN "preempt" ELSE "enqueue"
  ELSE IF cd >= 0 THEN "window" ELSE "direct"

\* the branch handleGroupMessage takes after checkAndCompress
handleRoute(trig, user, st, pend, cd) ==
  IF isGroupInCooldown(pend) THEN IF trig THEN "aggregated" ELSE "cooldown"
  ELSE IF ~trig THEN "noreply"
  ELSE IF isGroupProcessing(st)
    THEN IF getCurrentProcessingUserId(st) = user THEN "preempt" ELSE "enqueue"
  ELSE IF cd > 0 THEN "window" ELSE "direct"

\* a faulty variant: the preempting event is also put in the queue
Decide_preemptEnqueues(e, user, hist, mem) ==
  \E trig \in BOOLEAN :
    LET r == handleRoute(trig, user, groupQueues, pendingReplies, cooldownMs)
    IN  /\ route' = [route EXCEPT ![e] = r]
        /\ aborted' = IF r = "preempt"
                        THEN aborted \cup abortCurrentProcessing(groupQueues)
                        ELSE aborted
        /\ pendingReplies' = IF r = "window"
                               THEN scheduleReply(pendingReplies, e, cooldownMs).pending
                               ELSE pendingReplies
        /\ enqLog' = IF r = "enqueue" THEN Append(enqLog, e) ELSE enqLog
        /\ dropped' = IF r = "enqueue"
                        THEN dropped \cup evicted(groupQueues)
                        ELSE dropped
        /\ IF r = "direct"
             THEN StartGen(e, user, groupQueues, hist, mem)
             ELSE /\ groupQueues' = IF r \in {"enqueue", "preempt"}
                                      THEN enqueueMessage(groupQueues, e)
                                      ELSE groupQueues
                  /\ UNCHANGED genVars

\* handleGroupMessage from shouldReply to its end
Decide(e, user, hist, mem) ==
  \E trig \in BOOLEAN :
    LET r == handleRoute(trig, user, groupQueues, pendingReplies, cooldownMs)
    IN  /\ route' = [route EXCEPT ![e] = r]
        /\ aborted' = IF r = "preempt"
                        THEN aborted \cup abortCurrentProcessing(groupQueues)
                        ELSE aborted
        /\ pendingReplies' = IF r = "window"
                               THEN scheduleReply(pendingReplies, e, cooldownMs).pending
                               ELSE pendingReplies
        /\ enqLog' = IF r = "enqueue" THEN Append(enqLog, e) ELSE enqLog
        /\ dropped' = IF r = "enqueue"
                        THEN dropped \cup evicted(groupQueues)
                        ELSE dropped
        /\ IF r = "direct"
             THEN StartGen(e, user, groupQueues, hist, mem)
             ELSE /\ groupQueues' = IF r = "enqueue"
                                      THEN enqueueMessage(groupQueues, e)
                                      ELSE groupQueues
                  /\ UNCHANGED genVars

\* handleGroupMessage from the return of storeIncomingImages on
AfterImages(e, user, hist) ==
  IF compressNeeded(hist, compressionThreshold)
    THEN /\ hpc' = [hpc EXCEPT ![e] = "summarizing"]
         /\ snap' = [snap EXCEPT ![e] = takeSnapshot(hist, memory)]
         /\ history' = hist
         /\ UNCHANGED <<memory, route, aborted, pendingReplies, groupQueues,
                        genVars, enqLog, dropped>>
    ELSE /\ hpc' = [hpc EXCEPT ![e] = "done"]
         /\ history' = hist
         /\ UNCHANGED <<snap, memory>>
         /\ Decide(e, user, hist, memory)

\* a faulty variant: the group's enabled flag is not looked at
handlesGroup_ignoresEnabled(wl, en) == wl

\* the two early returns of handleGroupMessage: does it go on?
handlesGroup(wl, en) == wl /\ en

\* client.on('message.group'): a message of the group arrives
Receive(user, img, limit) ==
  /\ connected
  /\ arrived < limit
  /\ img => imgs < MaxImageEvents
  /\ imgs' = IF img THEN imgs + 1 ELSE imgs
  /\ LET e == arrived + 1
         hist == addMessage(history, UserMsg(e))
     IN  /\ arrived' = e
         /\ evUser' = [evUser EXCEPT ![e] = user]
         /\ evWindow' = [evWindow EXCEPT ![e] =
                           IF isGroupInCooldown(pendingReplies)
                             THEN pendingReplies.triggerEvent ELSE NULL]
         /\ IF ~handlesGroup(whitelisted, groupEnabled)
              THEN /\ hpc' = [hpc EXCEPT ![e] = "done"]
                   /\ route' = [route EXCEPT ![e] = "ignored"]
                   /\ UNCHANGED <<snap, dbVars, aborted, pendingReplies,
                                  groupQueues, genVars, enqLog, dropped>>
            ELSE IF img
              THEN /\ hpc' = [hpc EXCEPT ![e] = "images"]
                   /\ history' = hist
                   /\ UNCHANGED <<snap, memory, route, aborted, pendingReplies,
                                  groupQueues, genVars, enqLog, dropped>>
              ELSE AfterImages(e, user, hist)
  /\ UNCHANGED <<cfgVars, handLog, connVars, immediates, rounds, gfin, sent>>

\* storeIncomingImages settles
ImagesDone(e) ==
  /\ hpc[e] = "images"
  /\ AfterImages(e, evUser[e], history)
  /\ UNCHANGED <<cfgVars, handLog, connVars, evVars, immediates, rounds, gfin, sent>>

\* how a checkAndCompress that went on to summarize can end: with the swap
\* done, or with compressContext, saveMemory or the saveContext of the
\* truncated history throwing
Outcomes == {"ok", "summarizeThrows", "saveMemoryThrows", "saveContextThrows"}

\* checkAndCompress from the settling of compressContext to its return:
\* the history and the memory it leaves in the database
compressOutcome(s, out, mem) ==
  CASE out = "ok" ->
         [history |-> s.toKeep,
          memory |-> Append(s.existingMemory, s.toCompress)]
    [] out = "saveContextThrows" ->
         [history |-> s.backup,
          memory |-> IF s.existingMemory # <<>> THEN s.existingMemory
                     ELSE Append(s.existingMemory, s.toCompress)]
    [] OTHER ->
         [history |-> s.backup,
          memory |-> IF s.existingMemory # <<>> THEN s.existingMemory ELSE mem]

\* compressContext settles inside checkAndCompress
SummarizeDone(e, out) ==
  /\ hpc[e] = "summarizing"
  /\ LET r == compressOutcome(snap[e], out, memory)
     IN  /\ history' = r.history
         /\ memory' = r.memory
         /\ hpc' = [hpc EXCEPT ![e] = "done"]
         /\ snap' = [snap EXCEPT ![e] = NoSnap]
         /\ Decide(e, evUser[e], r.history, r.memory)
  /\ UNCHANGED <<cfgVars, handLog, connVars, evVars, immediates, rounds, gfin, sent>>

\* ------------------------------------------------ processReply, continued
\* the first callOpenAI of chatCore settles
ModelReturn(g) ==
  /\ gpc[g] = "model"
  /\ IF g \in aborted
       THEN /\ EndGen(g)
            /\ UNCHANGED <<gctx, gmsgs, ground, rounds>>
       ELSE \E out \in {"error", "empty", "text", "tools"} :
              CASE out = "tools" ->
                     /\ toolsEnabled
                     /\ rounds < MaxToolRounds
                     /\ rounds' = rounds + 1
                     /\ gmsgs' = [gmsgs EXCEPT ![g] = <<ToolCallMsg(g, 1)>>]
                     /\ ground' = [ground EXCEPT ![g] = 1]
                     /\ gpc' = [gpc EXCEPT ![g] = "tool"]
                     /\ UNCHANGED <<gctx, groupQueues, immediates, gfin>>
                [] out = "text" ->
                     /\ gpc' = [gpc EXCEPT ![g] = "delay"]
                     /\ UNCHANGED <<gctx, gmsgs, ground, rounds, groupQueues,
                                    immediates, gfin>>
                [] OTHER ->
                     /\ EndGen(g)
                     /\ UNCHANGED <<gctx, gmsgs, ground, rounds>>
  /\ UNCHANGED <<cfgVars, logVars, connVars, evVars, hVars, dbVars, route, aborted,
                 pendingReplies, sent>>

\* executeTool settles inside handleToolCallsLoop
ToolReturn(g) ==
  /\ gpc[g] = "tool"
  /\ gmsgs' = [gmsgs EXCEPT ![g] = Append(@, ToolMsg(g, ground[g]))]
  /\ IF g \in aborted
       THEN EndGen(g)
       ELSE /\ gpc' = [gpc EXCEPT ![g] = "loopmodel"]
            /\ UNCHANGED <<groupQueues, immediates, gfin>>
  /\ UNCHANGED <<cfgVars, logVars, connVars, evVars, hVars, dbVars, route, aborted,
                 pendingReplies, sent, gctx, ground, rounds>>

\* a callOpenAI of handleToolCallsLoop settles
LoopModelReturn(g) ==
  /\ gpc[g] = "loopmodel"
  /\ IF g \in aborted
       THEN /\ EndGen(g)
            /\ UNCHANGED <<gmsgs, ground, rounds, history>>
       ELSE \E out \in {"error", "empty", "text", "tools"} :
              CASE out = "tools" ->
                     /\ rounds < MaxToolRounds
                     /\ rounds' = rounds + 1
                     /\ gmsgs' = [gmsgs EXCEPT
                                    ![g] = Append(@, ToolCallMsg(g, ground[g] + 1))]
                     /\ ground' = [ground EXCEPT ![g] = @ + 1]
                     /\ gpc' = [gpc EXCEPT ![g] = "tool"]
                     /\ UNCHANGED <<groupQueues, immediates, gfin, history>>
                [] out = "text" ->
                     /\ history' = AppendAll(history, gmsgs[g])
                     /\ gpc' = [gpc EXCEPT ![g] = "delay"]
                     /\ UNCHANGED <<gmsgs, ground, rounds, groupQueues,
                                    immediates, gfin>>
                [] out = "empty" ->
                     /\ history' = AppendAll(history, gmsgs[g])
                     /\ EndGen(g)
                     /\ UNCHANGED <<gmsgs, ground, rounds>>
                [] OTHER ->
                     /\ EndGen(g)
                     /\ UNCHANGED <<gmsgs, ground, rounds, history>>
  /\ UNCHANGED <<cfgVars, logVars, connVars, evVars, hVars, memory, route, aborted,
                 pendingReplies, sent, gctx>>

\* the delay before the final reply elapses
DelayDone(g) ==
  /\ gpc[g] = "delay"
  /\ IF connected
       THEN /\ sent' = sent \cup {g}
            /\ gpc' = [gpc EXCEPT ![g] = "send"]
            /\ UNCHANGED <<groupQueues, immediates, gfin>>
       ELSE /\ EndGen(g)
            /\ UNCHANGED sent
  /\ UNCHANGED <<cfgVars, logVars, connVars, evVars, hVars, dbVars, route, aborted,
                 pendingReplies, gctx, gmsgs, ground, rounds>>

\* client.sendGroupMessage of the final reply settles
SendReturn(g, ok) ==
  /\ gpc[g] = "send"
  /\ history' = IF ok THEN addMessage(history, BotMsg(g)) ELSE history
  /\ EndGen(g)
  /\ UNCHANGED <<cfgVars, logVars, connVars, evVars, hVars, memory, route, aborted,
                 pendingReplies, gctx, gmsgs, ground, rounds, sent>>

\* the setImmediate callback of processReply's finally block runs
Handoff ==
  /\ immediates # <<>>
  /\ LET e == Head(immediates)
     IN  StartGen(e, evUser[e], groupQueues, history, memory)
  /\ immediates' = Tail(immediates)
  /\ handLog' = Append(handLog, Head(immediates))
  /\ UNCHANGED <<cfgVars, dropped, enqLog, connVars, evVars, hVars, dbVars, route, aborted,
                 pendingReplies, rounds, gfin, sent>>

\* ------------------------------------------------------------ the timers
\* time passes for the cooldown timer
Tick ==
  /\ pendingReplies.exists
  /\ pendingReplies.timer > 0
  /\ pendingReplies' = [pendingReplies EXCEPT !.timer = @ - 1]
  /\ UNCHANGED <<cfgVars, logVars, connVars, evVars, hVars, dbVars, genVars, route,
                 groupQueues, aborted, immediates, rounds, gfin, sent>>

\* the cooldown timer's callback runs, with processReply as handler
TimerFire ==
  /\ timerMayInvoke(pendingReplies)
  /\ pendingReplies' = timerCallback(pendingReplies).pending
  /\ LET e == pendingReplies.triggerEvent
     IN  StartGen(e, evUser[e], groupQueues, history, memory)
  /\ UNCHANGED <<cfgVars, logVars, connVars, evVars, hVars, dbVars, route, aborted,
                 immediates, rounds, gfin, sent>>

\* ------------------------------------------------------------ connection
\* disconnectBot
Disconnect ==
  /\ connected
  /\ disconnects < MaxDisconnects
  /\ aborted' = aborted \cup clearAborts(groupQueues)
  /\ groupQueues' = clearAllQueues(groupQueues)
  /\ connected' = FALSE
  /\ linkOpen' = FALSE
  /\ reconnectTimer' = FALSE
  /\ disconnects' = disconnects + 1
  /\ dropped' = dropped \cup Range(groupQueues.queue)
  /\ UNCHANGED <<cfgVars, enqLog, handLog, evVars, hVars, dbVars, genVars, route,
                 pendingReplies, immediates, rounds, gfin, sent,
                 reconnectAttempt, isConnecting, timerAwaiting>>

\* connectBot, up to the connection being open
Connect ==
  /\ ~connected
  /\ ~isConnecting
  /\ connected' = TRUE
  /\ linkOpen' = TRUE
  /\ reconnectTimer' = FALSE
  /\ reconnectAttempt' = 0
  /\ UNCHANGED <<isConnecting, timerAwaiting>>
  /\ UNCHANGED <<cfgVars, logVars, disconnects, evVars, hVars, dbVars, genVars, route,
                 groupQueues, aborted, pendingReplies, immediates, rounds, gfin,
                 sent>>

\* ------------------------------------------------------ the specifications
Next ==
  \/ \E u \in Users, img \in BOOLEAN : Receive(u, img, MaxEvents)
  \/ \E e \in Events : ImagesDone(e)
  \/ \E g \in Events : ModelReturn(g)
  \/ \E g \in Events : ToolReturn(g)
  \/ \E g \in Events : LoopModelReturn(g)
  \/ \E g \in Events : DelayDone(g)
  \/ \E g \in Events, ok \in BOOLEAN : SendReturn(g, ok)
  \/ Handoff
  \/ Tick
  \/ TimerFire
  \/ Disconnect
  \/ Connect

Spec == Init /\ [][Next]_vars

NextCompress ==
  \/ \E u \in Users, img \in BOOLEAN : Receive(u, img, MaxEvents)
  \/ \E e \in Events : ImagesDone(e)
  \/ \E e \in Events, out \in Outcomes : SummarizeDone(e, out)
  \/ \E g \in Events : ModelReturn(g)
  \/ \E g \in Events : DelayDone(g)
  \/ \E g \in Events, ok \in BOOLEAN : SendReturn(g, ok)
  \/ Handoff
  \/ Tick
  \/ TimerFire

SpecCompress == InitCompress /\ [][NextCompress]_vars

\* a group of any policy, with or without a stored history that has reached
\* the compression threshold
InitPolicy ==
  /\ whitelisted \in BOOLEAN
  /\ groupEnabled \in BOOLEAN
  /\ compressionThreshold = CompressionThreshold
  /\ maxMessages = MaxMessages
  /\ history \in {<<>>, [i \in 1..CompressionThreshold |-> UserMsg(0)]}
  /\ memory = <<>>
  /\ api = NoCall
  /\ chat = NoChat
  /\ InitModule(FALSE)

NextPolicy ==
  \/ \E u \in Users, img \in BOOLEAN : Receive(u, img, MaxPolicyEvents)
  \/ \E e \in Events : ImagesDone(e)
  \/ \E e \in Events, out \in Outcomes : SummarizeDone(e, out)
  \/ \E g \in Events : ModelReturn(g)
  \/ \E g \in Events : DelayDone(g)
  \/ \E g \in Events, ok \in BOOLEAN : SendReturn(g, ok)
  \/ Handoff
  \/ Tick
  \/ TimerFire

SpecPolicy == InitPolicy /\ [][NextPolicy]_vars

\* a longer burst of messages, none with images, to a group without tools
InitBurst == InitWith(THRESHOLD_MAX, FALSE)

NextBurst ==
  \/ \E u \in Users : Receive(u, FALSE, MaxBurstEvents)
  \/ \E g \in Events : ModelReturn(g)
  \/ \E g \in Events : DelayDone(g)
  \/ \E g \in Events, ok \in BOOLEAN : SendReturn(g, ok)
  \/ Handoff
  \/ Tick
  \/ TimerFire

SpecBurst == InitBurst /\ [][NextBurst]_vars

\* ------------------------------------------- the group-queue API, directly
InitApi == InitWith(THRESHOLD_MAX, TRUE) /\ cooldownMs = CooldownTicks

Called(op, arg, result) ==
  [api EXCEPT !.n = @ + 1, !.op = op, !.arg = arg, !.result = result,
              !.prev = groupQueues, !.prevPending = pendingReplies]

QueueFrame ==
  UNCHANGED <<whitelisted, groupEnabled, cooldownMs, compressionThreshold,
              maxMessages, toolsEnabled, chat,
              invoked, logVars,
              connVars, evVars, hVars, dbVars, genVars, route, pendingReplies,
              immediates, rounds, gfin, sent>>

QEnqueue ==
  /\ api.n < MaxApiCalls
  /\ groupQueues' = enqueueMessage(groupQueues, api.n + 1)
  /\ api' = Called("enqueueMessage", api.n + 1, FALSE)
  /\ UNCHANGED aborted
  /\ QueueFrame

QStart(u) ==
  /\ api.n < MaxApiCalls
  /\ groupQueues' = startProcessing(groupQueues, u, api.n + 1)
  /\ api' = Called("startProcessing", u, FALSE)
  /\ UNCHANGED aborted
  /\ QueueFrame

QAbort ==
  /\ api.n < MaxApiCalls
  /\ aborted' = aborted \cup abortCurrentProcessing(groupQueues)
  /\ api' = Called("abortCurrentProcessing", NULL, FALSE)
  /\ UNCHANGED groupQueues
  /\ QueueFrame

QFinish ==
  /\ api.n < MaxApiCalls
  /\ groupQueues' = finishProcessing(groupQueues).state
  /\ api' = Called("finishProcessing", finishProcessing(groupQueues).next, FALSE)
  /\ UNCHANGED aborted
  /\ QueueFrame

QClear ==
  /\ api.n < MaxApiCalls
  /\ aborted' = aborted \cup clearAborts(groupQueues)
  /\ groupQueues' = clearGroupQueue(groupQueues)
  /\ api' = Called("clearGroupQueue", NULL, FALSE)
  /\ QueueFrame

QClearAll ==
  /\ api.n < MaxApiCalls
  /\ aborted' = aborted \cup clearAborts(groupQueues)
  /\ groupQueues' = clearAllQueues(groupQueues)
  /\ api' = Called("clearAllQueues", NULL, FALSE)
  /\ QueueFrame

NextQueue ==
  \/ QEnqueue
  \/ \E u \in Users : QStart(u)
  \/ QAbort
  \/ QFinish
  \/ QClear
  \/ QClearAll

SpecQueue == InitApi /\ [][NextQueue]_vars

\* ------------------------------------ the message-aggregator API, directly
AggFrame ==
  UNCHANGED <<whitelisted, groupEnabled, cooldownMs, compressionThreshold,
              maxMessages, toolsEnabled, chat,
              logVars,
              connVars, evVars, hVars, dbVars, genVars, route, groupQueues,
              aborted, immediates, rounds, gfin, sent>>

AScheduleReply ==
  /\ api.n < MaxApiCalls
  /\ LET r == scheduleReply(pendingReplies, api.n + 1, cooldownMs)
     IN  /\ pendingReplies' = r.pending
         /\ api' = [Called("scheduleReply", api.n + 1, r.result) EXCEPT
                      !.first = IF api.first = NULL THEN api.n + 1 ELSE @,
                      !.created = IF api.first = NULL THEN @ + 1 ELSE @]
  /\ UNCHANGED invoked
  /\ AggFrame

AAddToAggregation ==
  /\ api.n < MaxApiCalls
  /\ LET r == addToAggregation(pendingReplies, api.n + 1)
     IN  /\ pendingReplies' = r.pending
         /\ api' = Called("addToAggregation", api.n + 1, r.result)
  /\ UNCHANGED invoked
  /\ AggFrame

ACancel ==
  /\ api.n < MaxApiCalls
  /\ LET r == cancelPendingReply(pendingReplies)
     IN  /\ pendingReplies' = r.pending
         /\ api' = [Called("cancelPendingReply", NULL, r.result) EXCEPT
                      !.first = NULL,
                      !.cancelled = IF api.first # NULL THEN @ + 1 ELSE @]
  /\ UNCHANGED invoked
  /\ AggFrame

AClearAll ==
  /\ api.n < MaxApiCalls
  /\ pendingReplies' = NoPending
  /\ api' = [Called("clearAllPendingReplies", NULL, FALSE) EXCEPT
               !.first = NULL,
               !.cancelled = IF api.first # NULL THEN @ + 1 ELSE @]
  /\ UNCHANGED invoked
  /\ AggFrame

\* time passes for the cooldown timer
ATick ==
  /\ pendingReplies.exists
  /\ pendingReplies.timer > 0
  /\ pendingReplies' = [pendingReplies EXCEPT !.timer = @ - 1]
  /\ api' = [api EXCEPT !.op = "tick", !.prevPending = pendingReplies]
  /\ UNCHANGED invoked
  /\ AggFrame

\* the cooldown timer's callback runs
ATimerFire ==
  /\ timerMayInvoke(pendingReplies)
  /\ pendingReplies' = timerCallback(pendingReplies).pending
  /\ invoked' = Append(invoked,
                       [triggerEvent |-> pendingReplies.triggerEvent,
                        aggregatedEvents |-> pendingReplies.aggregatedEvents,
                        expected |-> api.first,
                        inCooldown |-> isGroupInCooldown(
                                         timerCallback(pendingReplies).atHandler)])
  /\ api' = [api EXCEPT !.op = "timer", !.prevPending = pendingReplies,
                        !.first = NULL]
  /\ AggFrame

NextAgg ==
  \/ AScheduleReply
  \/ AAddToAggregation
  \/ ACancel
  \/ AClearAll
  \/ ATick
  \/ ATimerFire

SpecAgg == InitApi /\ [][NextAgg]_vars

\* ------------------------------------------- the context API, directly
\* a group with some messages stored, with or without a memory, under any
\* small configuration
InitContext ==
  /\ compressionThreshold \in 1..MaxConfig
  /\ maxMessages \in 1..MaxConfig
  /\ history \in {[i \in 1..n |-> UserMsg(i)] : n \in 0..MaxStored}
  /\ memory \in {<<>>, <<(<<UserMsg(0)>>)>>}
  /\ api = NoCall
  /\ chat = NoChat
  /\ InitIdle(FALSE)
  /\ cooldownMs = 0

ContextFrame ==
  UNCHANGED <<whitelisted, groupEnabled, cooldownMs, compressionThreshold,
              maxMessages, toolsEnabled, chat,
              invoked, logVars, connVars, evVars, genVars, route, groupQueues,
              aborted, pendingReplies, immediates, rounds, gfin, sent>>

\* checkAndCompress is called and runs to its await or to an early return
CCheck ==
  /\ api.n < MaxContextCalls
  /\ LET e == api.n + 1
     IN  IF compressNeeded(history, compressionThreshold)
           THEN /\ hpc' = [hpc EXCEPT ![e] = "summarizing"]
                /\ snap' = [snap EXCEPT ![e] = takeSnapshot(history, memory)]
           ELSE /\ hpc' = [hpc EXCEPT ![e] = "done"]
                /\ snap' = [snap EXCEPT ![e] =
                              [takeSnapshot(history, memory) EXCEPT
                                 !.outcome = "noop"]]
  /\ api' = Called("checkAndCompress", api.n + 1, FALSE)
  /\ UNCHANGED dbVars
  /\ ContextFrame

\* a suspended checkAndCompress runs from its await to its return
CSettle(e, out) ==
  /\ hpc[e] = "summarizing"
  /\ LET r == compressOutcome(snap[e], out, memory)
     IN  /\ history' = r.history
         /\ memory' = r.memory
  /\ hpc' = [hpc EXCEPT ![e] = "done"]
  /\ snap' = [snap EXCEPT ![e].outcome = out]
  /\ api' = [api EXCEPT !.op = "settled", !.arg = e]
  /\ ContextFrame

\* addMessage is called
CAdd ==
  /\ api.n < MaxContextCalls
  /\ history' = addMessage(history, UserMsg(MaxStored + api.n + 1))
  /\ api' = Called("addMessage", MaxStored + api.n + 1, FALSE)
  /\ UNCHANGED <<memory, hVars>>
  /\ ContextFrame

NextContext ==
  \/ CCheck
  \/ \E e \in Events, out \in Outcomes : CSettle(e, out)
  \/ CAdd

SpecContext == InitContext /\ [][NextContext]_vars

\* ------------------------------------------------------ response-decider
\* the bot's own id, and the id of somebody else
SelfId == 1
OtherId == 2

\* message segments: text, a mention of the bot or of somebody else, a quote
Segments ==
  {[type |-> "text", qq |-> NULL], [type |-> "at", qq |-> SelfId],
   [type |-> "at", qq |-> OtherId], [type |-> "reply", qq |-> NULL]}

\* a faulty variant: the quote rule is tried before the mention rule
shouldReply_quoteFirst(event, groupSettings, selfId, random) ==
  LET atSegments == SelectSeq(event.message,
                              LAMBDA seg : seg.type = "at" /\ seg.qq = selfId)
      replySegments == SelectSeq(event.message, LAMBDA seg : seg.type = "reply")
  IN  IF Len(replySegments) > 0 /\ groupSettings.mustReplyOnQuote
        THEN [shouldReply |-> TRUE, reason |-> "quote"]
      ELSE IF Len(atSegments) > 0 /\ groupSettings.mustReplyOnAt
        THEN [shouldReply |-> TRUE, reason |-> "at"]
      ELSE IF groupSettings.randomReplyProbability > 0
                /\ random < groupSettings.randomReplyProbability
        THEN [shouldReply |-> TRUE, reason |-> "random"]
      ELSE [shouldReply |-> FALSE, reason |-> "none"]

\* shouldReply; random is the value Math.random() returns when it is called,
\* it and randomReplyProbability counted in steps of 1 / RandomSteps
shouldReply(event, groupSettings, selfId, random) ==
  LET atSegments == SelectSeq(event.message,
                              LAMBDA seg : seg.type = "at" /\ seg.qq = selfId)
      replySegments == SelectSeq(event.message, LAMBDA seg : seg.type = "reply")
  IN  IF Len(atSegments) > 0 /\ groupSettings.mustReplyOnAt
        THEN [shouldReply |-> TRUE, reason |-> "at"]
      ELSE IF Len(replySegments) > 0 /\ groupSettings.mustReplyOnQuote
        THEN [shouldReply |-> TRUE, reason |-> "quote"]
      ELSE IF groupSettings.randomReplyProbability > 0
                /\ random < groupSettings.randomReplyProbability
        THEN [shouldReply |-> TRUE, reason |-> "random"]
      ELSE [shouldReply |-> FALSE, reason |-> "none"]

Messages ==
  UNION {[1..n -> Segments] : n \in 0..MaxSegments}

\* the arguments of a call of shouldReply and the random number it will draw
DecideInputs ==
  [message : Messages,
   mustReplyOnAt : BOOLEAN,
   mustReplyOnQuote : BOOLEAN,
   randomReplyProbability : 0..RandomSteps,
   random : 0..(RandomSteps - 1)]

InitDecide ==
  /\ compressionThreshold = THRESHOLD_MAX
  /\ maxMessages = MaxMessages
  /\ history = <<>>
  /\ memory = <<>>
  /\ api \in {[NoCall EXCEPT !.arg = in] : in \in DecideInputs}
  /\ chat = NoChat
  /\ InitIdle(FALSE)
  /\ cooldownMs = 0

\* shouldReply is called
DShouldReply ==
  /\ api.n = 0
  /\ api' = [api EXCEPT
               !.n = 1,
               !.op = "shouldReply",
               !.result = shouldReply([message |-> api.arg.message],
                                      api.arg, SelfId, api.arg.random)]
  /\ UNCHANGED <<whitelisted, groupEnabled, cooldownMs, compressionThreshold,
              maxMessages, toolsEnabled, chat,
                 invoked, logVars, connVars, evVars, hVars, dbVars, genVars,
                 route, groupQueues, aborted, pendingReplies, immediates,
                 rounds, gfin, sent>>

NextDecide == DShouldReply

SpecDecide == InitDecide /\ [][NextDecide]_vars

\* ------------------------------------------- mergeConsecutiveMessages
\* an OpenAIMessage: content is the list of the texts joined in it (none for
\* '' and null), tool_calls the ids of its tool calls
Turn(role, content, tool_calls, tool_call_id) ==
  [role |-> role, content |-> content, tool_calls |-> tool_calls,
   tool_call_id |-> tool_call_id]

\* the reducer of messages.reduce: merged so far, and the next message
mergeStep(result, msg) ==
  LET n == Len(result)
      last == result[n]
  IN  IF n > 0 /\ last.role = "user" /\ msg.role = "user"
        THEN [result EXCEPT ![n].content = last.content \o msg.content]
      ELSE IF n > 0 /\ last.role = "assistant" /\ msg.role = "assistant"
                /\ last.tool_calls = <<>>
        THEN [result EXCEPT ![n].content = last.content \o msg.content,
                            ![n].tool_calls = msg.tool_calls]
      ELSE Append(result, msg)

RECURSIVE mergeReduce(_)
mergeReduce(messages) ==
  IF messages = <<>> THEN <<>>
  ELSE LET n == Len(messages)
       IN  mergeStep(mergeReduce(SubSeq(messages, 1, n - 1)), messages[n])

\* validMessages.pop() when its last element is an assistant with tool_calls
popIncomplete(valid) ==
  LET lastIdx == Len(valid)
  IN  IF lastIdx >= 1 /\ valid[lastIdx].role = "assistant"
           /\ valid[lastIdx].tool_calls # <<>>
        THEN SubSeq(valid, 1, lastIdx - 1)
        ELSE valid

\* the body of the for loop over merged: validMessages and
\* pendingToolCallIds before and after one message
filterStep(st, msg) ==
  IF msg.role = "assistant" /\ msg.tool_calls # <<>>
    THEN [valid |-> Append(st.valid, msg),
          pending |-> st.pending \cup {msg.tool_calls[i] : i \in 1..Len(msg.tool_calls)}]
  ELSE IF msg.role = "tool"
    THEN IF msg.tool_call_id # NULL /\ msg.tool_call_id \in st.pending
           THEN [valid |-> Append(st.valid, msg),
                 pending |-> st.pending \ {msg.tool_call_id}]
           ELSE st
  ELSE IF st.pending # {}
    THEN [valid |-> Append(popIncomplete(st.valid), msg), pending |-> {}]
  ELSE [valid |-> Append(st.valid, msg), pending |-> st.pending]

RECURSIVE filterLoop(_)
filterLoop(merged) ==
  IF merged = <<>> THEN [valid |-> <<>>, pending |-> {}]
  ELSE LET n == Len(merged)
       IN  filterStep(filterLoop(SubSeq(merged, 1, n - 1)), merged[n])

mergeConsecutiveMessages(messages) ==
  LET st == filterLoop(mergeReduce(messages))
  IN  IF st.pending # {} THEN popIncomplete(st.valid) ELSE st.valid

\* the turns that can stand at position i of the input
Turns(i) ==
  {Turn(r, <<i>>, <<>>, NULL) : r \in {"system", "user", "assistant"}}
    \cup {Turn("assistant", <<>>, <<id>>, NULL) : id \in 1..MaxToolCallIds}
    \cup {Turn("assistant", <<>>, <<1, 2>>, NULL)}
    \cup {Turn("tool", <<i>>, <<>>, id) : id \in 1..MaxToolCallIds}

RECURSIVE TurnSeqs(_)
TurnSeqs(n) ==
  IF n = 0 THEN {<<>>}
  ELSE {Append(s, t) : s \in TurnSeqs(n - 1), t \in Turns(n)}

InitMerge ==
  /\ compressionThreshold = THRESHOLD_MAX
  /\ maxMessages = MaxMessages
  /\ history = <<>>
  /\ memory = <<>>
  /\ api \in {[NoCall EXCEPT !.arg = in] :
                in \in UNION {TurnSeqs(n) : n \in 0..MaxTurns}}
  /\ chat = NoChat
  /\ InitIdle(FALSE)
  /\ cooldownMs = 0

\* mergeConsecutiveMessages is called
MMerge ==
  /\ api.n = 0
  /\ api' = [api EXCEPT !.n = 1,
                        !.op = "mergeConsecutiveMessages",
                        !.result = mergeConsecutiveMessages(api.arg)]
  /\ UNCHANGED <<whitelisted, groupEnabled, cooldownMs, compressionThreshold,
              maxMessages, toolsEnabled, chat,
                 invoked, logVars, connVars, evVars, hVars, dbVars, genVars,
                 route, groupQueues, aborted, pendingReplies, immediates,
                 rounds, gfin, sent>>

NextMerge == MMerge

SpecMerge == InitMerge /\ [][NextMerge]_vars

\* ------------------------------------------------- chatCore, directly
\* the abort signal handed to the chat
ChatSignal == 1

\* the tool calls the i-th response can carry
ToolCalls(i, j) ==
  {[id |-> 10 * i + j, name |-> nm, arguments |-> a] :
     nm \in ToolNames, a \in Arguments}
ToolCallSeqs(i) ==
  IF i >= MaxResponses THEN {<<>>}
  ELSE {<<>>} \cup {<<t>> : t \in ToolCalls(i, 1)}
         \cup IF MaxCallsPerRound >= 2
                THEN {<<t, u>> : t \in ToolCalls(i, 1), u \in ToolCalls(i, 2)}
                ELSE {}

\* what the provider can answer to the i-th model call
Responses(i) ==
  {[content |-> c, toolCalls |-> tcs] :
     c \in {Empty, Blank, Raw(i)}, tcs \in ToolCallSeqs(i)}

InitChat ==
  /\ compressionThreshold = THRESHOLD_MAX
  /\ maxMessages = MaxMessages
  /\ history = <<>>
  /\ memory = <<>>
  /\ api = NoCall
  /\ chat \in {[NoChat EXCEPT !.toolContext = tc, !.onIntermediateOutput = cb] :
                 tc \in BOOLEAN, cb \in BOOLEAN}
  /\ \E tools \in BOOLEAN : InitIdle(tools)
  /\ cooldownMs = 0

ChatFrame ==
  UNCHANGED <<whitelisted, groupEnabled, cooldownMs, compressionThreshold,
              maxMessages, toolsEnabled,
              api, invoked, logVars, connVars, evVars, hVars, dbVars, genVars,
              route, groupQueues, pendingReplies, immediates, rounds, gfin,
              sent>>

ChatTools == IF hasTools(toolsEnabled, chat.toolContext) THEN TRUE ELSE FALSE

\* chatCore is called
ChStart ==
  /\ chat.pc = "idle"
  /\ chat' = callOpenAI(chat, ChatTools, ChatSignal \in aborted)
  /\ UNCHANGED aborted
  /\ ChatFrame

\* the fetch of callOpenAI settles: with a response, or with an error (a
\* failure, a timeout, or the abort of the signal)
ChModelReturn(ok) ==
  /\ chat.pc = "model"
  /\ ChatSignal \in aborted => ~ok
  /\ IF ok
       THEN \E response \in Responses(Len(chat.responses) + 1) :
              chat' = afterModel(chat, response, ChatTools, ChatSignal \in aborted)
       ELSE chat' = [chat EXCEPT !.pc = "thrown"]
  /\ UNCHANGED aborted
  /\ ChatFrame

\* executeTool settles
ChToolReturn ==
  /\ chat.pc = "tool"
  /\ LET toolCall == chat.currentToolCalls[chat.idx]
     IN  chat' = forStep([chat EXCEPT !.toolMessages = Append(@, ToolResult(toolCall)),
                                      !.idx = @ + 1],
                         ChatTools, ChatSignal \in aborted)
  /\ UNCHANGED aborted
  /\ ChatFrame

\* onIntermediateOutput settles
ChIntermediateDone ==
  /\ chat.pc = "intermediate"
  /\ chat' = afterIntermediate(chat, ChatTools, ChatSignal \in aborted)
  /\ UNCHANGED aborted
  /\ ChatFrame

\* abort() is called on the controller of the signal
ChAbort ==
  /\ chat.pc \notin {"returned", "thrown"}
  /\ ChatSignal \notin aborted
  /\ aborted' = aborted \cup {ChatSignal}
  /\ UNCHANGED chat
  /\ ChatFrame

NextChat ==
  \/ ChStart
  \/ \E ok \in BOOLEAN : ChModelReturn(ok)
  \/ ChToolReturn
  \/ ChIntermediateDone
  \/ ChAbort

SpecChat == InitChat /\ [][NextChat]_vars

\* ------------------------- processReply: the onIntermediateOutput callback
\* the chat call of processReply: always with a tool context and the callback
InitIntermediate ==
  /\ compressionThreshold = THRESHOLD_MAX
  /\ maxMessages = MaxMessages
  /\ history = <<>>
  /\ memory = <<>>
  /\ api = NoCall
  /\ chat = [NoChat EXCEPT !.toolContext = TRUE, !.onIntermediateOutput = TRUE]
  /\ \E tools \in BOOLEAN : InitIdle(tools)
  /\ cooldownMs = 0

IntermediateFrame ==
  UNCHANGED <<whitelisted, groupEnabled, cooldownMs, compressionThreshold,
              maxMessages, toolsEnabled,
              api, invoked, logVars, connVars, evVars, hVars, dbVars, gctx,
              gmsgs, ground, route, groupQueues, pendingReplies, immediates,
              rounds, gfin>>

\* the chat call of processReply begins
IStart ==
  /\ chat.pc = "idle"
  /\ chat' = callOpenAI(chat, ChatTools, ChatSignal \in aborted)
  /\ UNCHANGED <<aborted, gpc, sent>>
  /\ IntermediateFrame

\* the fetch of callOpenAI settles; a text that comes with tool calls is
\* handed to onIntermediateOutput, which runs to its first await (the random
\* delay) or returns at once
IModelReturn(ok) ==
  /\ chat.pc = "model"
  /\ ChatSignal \in aborted => ~ok
  /\ IF ok
       THEN \E response \in Responses(Len(chat.responses) + 1) :
              LET d == afterModel(chat, response, ChatTools, ChatSignal \in aborted)
              IN  IF d.pc # "intermediate"
                    THEN chat' = d /\ UNCHANGED gpc
                  ELSE IF ChatSignal \in aborted \/ ~connected
                    THEN /\ chat' = afterIntermediate(d, ChatTools, ChatSignal \in aborted)
                         /\ UNCHANGED gpc
                  ELSE /\ chat' = d
                       /\ gpc' = [gpc EXCEPT ![ChatSignal] = "intermediateDelay"]
       ELSE chat' = [chat EXCEPT !.pc = "thrown"] /\ UNCHANGED gpc
  /\ UNCHANGED <<aborted, sent>>
  /\ IntermediateFrame

\* the random delay of onIntermediateOutput elapses: the text is handed to
\* client.sendGroupMessage
IDelayDone ==
  /\ gpc[ChatSignal] = "intermediateDelay"
  /\ IF connected
       THEN /\ sent' = sent \cup {Len(chat.responses)}
            /\ gpc' = [gpc EXCEPT ![ChatSignal] = "intermediateSend"]
            /\ UNCHANGED chat
       ELSE /\ chat' = [chat EXCEPT !.pc = "thrown"]
            /\ gpc' = [gpc EXCEPT ![ChatSignal] = "none"]
            /\ UNCHANGED sent
  /\ UNCHANGED aborted
  /\ IntermediateFrame

\* client.sendGroupMessage of the intermediate text settles and
\* onIntermediateOutput returns, or throws into handleToolCallsLoop
ISendReturn(ok) ==
  /\ gpc[ChatSignal] = "intermediateSend"
  /\ chat' = IF ok THEN afterIntermediate(chat, ChatTools, ChatSignal \in aborted)
             ELSE [chat EXCEPT !.pc = "thrown"]
  /\ gpc' = [gpc EXCEPT ![ChatSignal] = "none"]
  /\ UNCHANGED <<aborted, sent>>
  /\ IntermediateFrame

\* executeTool settles
IToolReturn ==
  /\ chat.pc = "tool"
  /\ LET toolCall == chat.currentToolCalls[chat.idx]
     IN  chat' = forStep([chat EXCEPT !.toolMessages = Append(@, ToolResult(toolCall)),
                                      !.idx = @ + 1],
                         ChatTools, ChatSignal \in aborted)
  /\ UNCHANGED <<aborted, gpc, sent>>
  /\ IntermediateFrame

\* the generation is cancelled: abort() is called on its controller
IAbort ==
  /\ chat.pc \notin {"returned", "thrown"}
  /\ ChatSignal \notin aborted
  /\ aborted' = aborted \cup {ChatSignal}
  /\ UNCHANGED <<chat, gpc, sent>>
  /\ IntermediateFrame

NextIntermediate ==
  \/ IStart
  \/ \E ok \in BOOLEAN : IModelReturn(ok)
  \/ IDelayDone
  \/ \E ok \in BOOLEAN : ISendReturn(ok)
  \/ IToolReturn
  \/ IAbort

SpecIntermediate == InitIntermediate /\ [][NextIntermediate]_vars

\* ---------------------------------------------------------- tools: subagent
\* the names getEnabledToolDefinitions can return
SubagentToolNames == ToolNames \cup {"subagent"}

\* the values of args.max_rounds
RequestedRounds == (0 - 1)..MaxRequested \cup {MAX_ROUNDS - 1, MAX_ROUNDS, MAX_ROUNDS + 1}

\* the names of the tools offered to the subagent; allowedTools is {} when
\* args.tools is absent or empty
filterToolsForSubagent(enabledTools, allowedTools) ==
  LET filtered == enabledTools \ {"subagent"}
  IN  IF allowedTools # {} THEN filtered \cap allowedTools ELSE filtered

\* (args.max_rounds as number) || 10
requestedOrDefault(args) ==
  IF args.hasMaxRounds /\ args.max_rounds # 0 THEN args.max_rounds
  ELSE DEFAULT_ROUNDS

\* Math.max(1, Math.min(50, maxRounds))
clampRounds(n) ==
  LET m == IF n < MAX_ROUNDS THEN n ELSE MAX_ROUNDS
  IN  IF m > 1 THEN m ELSE 1

\* the locals of an executeSubagent call that has not begun, and the log of
\* its model calls: how many carried tools, how many did not, and the tools
\* that were offered
NoSubagent ==
  [pc |-> "idle", maxRounds |-> 0, tools |-> {}, rounds |-> 0, toolsUsed |-> {},
   withTools |-> 0, withoutTools |-> 0, offered |-> {}, success |-> FALSE]

\* runSubagentLoop at the head of its while loop: the next callSubagentAPI
\* with the tools, or after the last round the one without
whileStep(c) ==
  IF c.rounds < c.maxRounds
    THEN [c EXCEPT !.rounds = @ + 1,
                   !.pc = "model",
                   !.withTools = @ + 1,
                   !.offered = @ \cup c.tools]
    ELSE [c EXCEPT !.pc = "final", !.withoutTools = @ + 1]

InitSubagent ==
  /\ compressionThreshold = THRESHOLD_MAX
  /\ maxMessages = MaxMessages
  /\ history = <<>>
  /\ memory = <<>>
  /\ api \in {[NoCall EXCEPT !.arg = [task |-> t, tools |-> al, hasMaxRounds |-> h,
                                       max_rounds |-> r, enabledTools |-> en]] :
                t \in BOOLEAN, al \in SUBSET SubagentToolNames, h \in BOOLEAN,
                r \in RequestedRounds, en \in SUBSET SubagentToolNames}
  /\ chat = NoSubagent
  /\ InitIdle(TRUE)
  /\ cooldownMs = 0

SubagentFrame ==
  UNCHANGED <<whitelisted, groupEnabled, cooldownMs, compressionThreshold,
              maxMessages, toolsEnabled, invoked, logVars, connVars, evVars,
              hVars, dbVars, genVars, route, groupQueues, aborted,
              pendingReplies, immediates, rounds, gfin, sent>>

\* executeSubagent is called and runs to its first await or to a return
SExecute ==
  /\ api.n = 0
  /\ api' = [api EXCEPT !.n = 1, !.op = "executeSubagent"]
  /\ LET maxRounds == clampRounds(requestedOrDefault(api.arg))
         tools == filterToolsForSubagent(api.arg.enabledTools, api.arg.tools)
         c == [chat EXCEPT !.maxRounds = maxRounds, !.tools = tools]
     IN  chat' = IF ~api.arg.task \/ tools = {}
                   THEN [c EXCEPT !.pc = "returned"]
                   ELSE whileStep(c)
  /\ SubagentFrame

\* a callSubagentAPI with tools settles: it throws, or answers without a
\* tool call, or with a call of the tool of some name
SModelReturn(out) ==
  /\ chat.pc = "model"
  /\ chat' = CASE out = "throws" -> [chat EXCEPT !.pc = "returned"]
               [] out = "none" -> [chat EXCEPT !.pc = "returned", !.success = TRUE]
               [] OTHER -> [chat EXCEPT !.pc = "tool", !.toolsUsed = @ \cup {out}]
  /\ UNCHANGED api
  /\ SubagentFrame

\* executeTool settles
SToolReturn ==
  /\ chat.pc = "tool"
  /\ chat' = whileStep(chat)
  /\ UNCHANGED api
  /\ SubagentFrame

\* the callSubagentAPI without tools settles
SFinalReturn(ok) ==
  /\ chat.pc = "final"
  /\ chat' = [chat EXCEPT !.pc = "returned", !.success = ok]
  /\ UNCHANGED api
  /\ SubagentFrame

NextSubagent ==
  \/ SExecute
  \/ \E out \in {"throws", "none"} \cup SubagentToolNames : SModelReturn(out)
  \/ SToolReturn
  \/ \E ok \in BOOLEAN : SFinalReturn(ok)

SpecSubagent == InitSubagent /\ [][NextSubagent]_vars

\* --------------------------------------- bot: connecting and reconnecting
InitConnection == InitWith(THRESHOLD_MAX, TRUE) /\ cooldownMs = 0

ConnectionFrame ==
  UNCHANGED <<whitelisted, groupEnabled, cooldownMs, compressionThreshold,
              maxMessages, toolsEnabled, chat, invoked, enqLog, handLog,
              evVars, hVars, dbVars, genVars, route, pendingReplies,
              immediates, rounds, gfin, sent>>

\* connectBot, called with client = cl and the reconnect timer as in armed,
\* by the timer's callback or not, up to its await: it awaits the doConnect
\* already under way, or returns because there is a client, or begins a
\* doConnect (which clears the timer and creates the client)
connectBot(cl, armed, byTimer) ==
  IF isConnecting
    THEN /\ connected' = cl
         /\ reconnectTimer' = armed
         /\ timerAwaiting' = (timerAwaiting \/ byTimer)
         /\ UNCHANGED isConnecting
  ELSE IF cl
    THEN /\ connected' = cl
         /\ reconnectTimer' = armed
         /\ UNCHANGED <<isConnecting, timerAwaiting>>
  ELSE /\ connected' = TRUE
       /\ reconnectTimer' = FALSE
       /\ isConnecting' = TRUE
       /\ timerAwaiting' = byTimer

\* connectBot is called from outside
BConnectBot ==
  /\ api.n < MaxConnectionCalls
  /\ api' = [api EXCEPT !.n = @ + 1, !.op = "connectBot"]
  /\ connectBot(connected, reconnectTimer, FALSE)
  /\ linkOpen' = (linkOpen /\ connected' = connected)
  /\ UNCHANGED <<reconnectAttempt, disconnects, groupQueues, aborted, dropped>>
  /\ ConnectionFrame

\* reconnectBot is called from outside
BReconnectBot ==
  /\ api.n < MaxConnectionCalls
  /\ api' = [api EXCEPT !.n = @ + 1, !.op = "reconnectBot"]
  /\ connectBot(FALSE, FALSE, FALSE)
  /\ linkOpen' = FALSE
  /\ reconnectAttempt' = 0
  /\ UNCHANGED <<disconnects, groupQueues, aborted, dropped>>
  /\ ConnectionFrame

\* disconnectBot is called from outside
BDisconnectBot ==
  /\ api.n < MaxConnectionCalls
  /\ api' = [api EXCEPT !.n = @ + 1, !.op = "disconnectBot"]
  /\ reconnectTimer' = FALSE
  /\ aborted' = aborted \cup clearAborts(groupQueues)
  /\ groupQueues' = clearAllQueues(groupQueues)
  /\ dropped' = dropped \cup Range(groupQueues.queue)
  /\ connected' = FALSE
  /\ linkOpen' = FALSE
  /\ disconnects' = disconnects + 1
  /\ UNCHANGED <<reconnectAttempt, isConnecting, timerAwaiting>>
  /\ ConnectionFrame

\* the client.connect() that doConnect awaits settles: the connection is
\* open (and, if its listeners are still attached, 'connect' is handled), or
\* it failed; connectBot returns, and the timer's callback, if it awaited it,
\* schedules a reconnect after a failure
BConnectSettles(ok) ==
  /\ isConnecting
  /\ isConnecting' = FALSE
  /\ linkOpen' = (ok /\ connected)
  /\ reconnectAttempt' = IF ok /\ connected THEN 0 ELSE reconnectAttempt
  /\ timerAwaiting' = FALSE
  /\ reconnectTimer' = IF timerAwaiting /\ ~ok THEN TRUE ELSE reconnectTimer
  /\ UNCHANGED <<connected, disconnects, api, groupQueues, aborted, dropped>>
  /\ ConnectionFrame

\* client.on('disconnect'): the open connection is lost
BLinkDown ==
  /\ connected
  /\ linkOpen
  /\ connected' = FALSE
  /\ linkOpen' = FALSE
  /\ reconnectTimer' = TRUE
  /\ UNCHANGED <<reconnectAttempt, isConnecting, timerAwaiting, disconnects, api,
                 groupQueues, aborted, dropped>>
  /\ ConnectionFrame

\* the callback of the reconnect timer runs
BReconnectTimer ==
  /\ reconnectTimer
  /\ reconnectAttempt < MaxReconnectAttempts
  /\ reconnectAttempt' = reconnectAttempt + 1
  /\ connectBot(connected, FALSE, TRUE)
  /\ linkOpen' = (linkOpen /\ connected' = connected)
  /\ UNCHANGED <<disconnects, api, groupQueues, aborted, dropped>>
  /\ ConnectionFrame

NextConnection ==
  \/ BConnectBot
  \/ BReconnectBot
  \/ BDisconnectBot
  \/ \E ok \in BOOLEAN : BConnectSettles(ok)
  \/ BLinkDown
  \/ BReconnectTimer

SpecConnection == InitConnection /\ [][NextConnection]_vars

\* ---------------------------------------------------------- the properties
\* the processReply invocations that have begun and not yet returned
InFlight == {g \in Events : gpc[g] \in {"model", "tool", "loopmodel", "delay", "send"}}

\* C1: startProcessing is never called for a group that is already
\* processing, so at most one generation is in flight at a time.  (Stated for
\* runs without a disconnect: every begin must find the group not processing.)
C1_BeginOnlyWhenIdle ==
  [][\A e \in Events :
       (disconnects = 0 /\ gpc[e] = "none" /\ gpc'[e] # "none")
         => ~isGroupProcessing(groupQueues)]_vars

\* a generation was begun for a group that was processing, and two run at once
C1_TwoInFlight ==
  /\ disconnects = 0
  /\ Cardinality(InFlight) >= 2

\* C2: whatever the sequence of group-queue calls, the queue holds at most
\* MAX_QUEUE_SIZE events; enqueueMessage on a full queue removes exactly the
\* head and appends the new event at the tail, and enqueueMessage always ends
\* with the new event last in the queue.
C2_QueueBounded ==
  /\ Len(groupQueues.queue) <= MAX_QUEUE_SIZE
  /\ api.op = "enqueueMessage" =>
       /\ groupQueues.queue # <<>>
       /\ groupQueues.queue[Len(groupQueues.queue)] = api.arg
       /\ IF Len(api.prev.queue) >= MAX_QUEUE_SIZE
            THEN groupQueues.queue = Append(Tail(api.prev.queue), api.arg)
            ELSE groupQueues.queue = Append(api.prev.queue, api.arg)

\* enqueueMessage has just been called on a full queue
C2_EnqueuedOnFull ==
  /\ api.op = "enqueueMessage"
  /\ Len(api.prev.queue) = MAX_QUEUE_SIZE

\* C3: in every state of the group's queue state, processing, currentUserId
\* and abortController are all set or all clear, whatever call came last.
C3_AllSetOrAllClear ==
  \/ /\ groupQueues.processing
     /\ groupQueues.currentUserId # NULL
     /\ groupQueues.abortController # NULL
  \/ /\ ~groupQueues.processing
     /\ groupQueues.currentUserId = NULL
     /\ groupQueues.abortController = NULL

\* finishProcessing or clearGroupQueue has just been called on a processing
\* group that had events queued
C3_ReleasedWhileProcessing ==
  /\ api.op \in {"finishProcessing", "clearGroupQueue"}
  /\ api.prev.processing
  /\ api.prev.queue # <<>>

\* C4: of the scheduleReply calls made for a group while its window is open,
\* only the first creates the window (and returns true); each later one
\* returns false and only appends its event to aggregatedEvents, leaving the
\* anchor and the timer as they were; the handler is invoked with the event
\* of the first call as anchor, and once per window: every window created has
\* been invoked, has been cancelled, or is still open.
C4_OneInvocationPerWindow ==
  /\ (api.op = "scheduleReply" /\ api.prevPending.exists) =>
       /\ api.result = FALSE
       /\ pendingReplies =
            [api.prevPending EXCEPT !.aggregatedEvents = Append(@, api.arg)]
  /\ (api.op = "scheduleReply" /\ ~api.prevPending.exists) =>
       /\ api.result = TRUE
       /\ pendingReplies.exists
       /\ pendingReplies.triggerEvent = api.arg
       /\ pendingReplies.aggregatedEvents = <<>>
  /\ \A i \in 1..Len(invoked) : invoked[i].triggerEvent = invoked[i].expected
  /\ \A i, j \in 1..Len(invoked) :
       i < j => invoked[i].triggerEvent < invoked[j].triggerEvent
  /\ api.created = Len(invoked) + api.cancelled
                     + (IF pendingReplies.exists THEN 1 ELSE 0)

\* the handler has been invoked for a window on which scheduleReply was called
\* three times
C4_InvokedAfterThreeCalls ==
  /\ api.op = "timer"
  /\ Len(invoked) = 1
  /\ Len(invoked[1].aggregatedEvents) = 2
  /\ api.n = 3

\* C5: a message that arrives is appended to the history, behind everything
\* already there, in the turn in which it arrives, whatever the group's state
\* and whether or not it triggers a reply; so the user messages of the history
\* are the delivered events, in arrival order.
C5_AppendedOnArrival ==
  /\ [][arrived' # arrived =>
          /\ arrived' = arrived + 1
          /\ history' = Append(history, UserMsg(arrived'))]_vars
  /\ [](SelectSeq(history, LAMBDA m : m.role = "user")
          = [e \in 1..arrived |-> UserMsg(e)])

\* messages have arrived during a cooldown window and during a generation,
\* one of them not triggering, and all are in the history
C5_ArrivedInEveryState ==
  /\ \E e \in Events : route[e] = "cooldown"
  /\ \E e \in Events : route[e] = "enqueue"
  /\ arrived = MaxEvents
  /\ Len(history) >= MaxEvents

\* C6: no message is lost between compression and append: every delivered
\* message is in the history, or in a part of the history that a compression
\* summarized into the memory.
C6_NoLostUpdate ==
  \A e \in 1..arrived :
    \/ UserMsg(e) \in Range(history)
    \/ \E i \in 1..Len(memory) : UserMsg(e) \in Range(memory[i])

\* C7: every processReply that has returned has called finishProcessing
\* exactly once, whichever way it ended, none that is still running has
\* called it, and the group is processing only while some processReply runs.
C7_EveryExitReleases ==
  /\ \A g \in Events : gfin[g] = IF gpc[g] = "done" THEN 1 ELSE 0
  /\ isGroupProcessing(groupQueues) => InFlight # {}

\* one generation was interrupted in its tool loop, another sent its reply,
\* a third ended without a reply to send, and the group is idle again
C7_EndedEveryWay ==
  /\ \E g \in Events : gpc[g] = "done" /\ g \in aborted /\ ground[g] > 0
  /\ \E g \in Events : gpc[g] = "done" /\ g \in sent
  /\ \E g \in Events : gpc[g] = "done" /\ g \notin aborted /\ g \notin sent
  /\ InFlight = {}
  /\ ~isGroupProcessing(groupQueues)

\* what handleGroupMessage does with an event for which shouldReply said yes
Triggering == {"aggregated", "preempt", "enqueue", "window", "direct"}

\* C8: a triggering event of another user than the current one, arriving
\* while the group is processing, is enqueued.
C8_OtherUserIsEnqueued ==
  [][\A e \in Events :
       ( /\ arrived = e - 1
         /\ arrived' = e
         /\ route'[e] \in Triggering
         /\ isGroupProcessing(groupQueues)
         /\ getCurrentProcessingUserId(groupQueues) # evUser'[e] )
       => /\ route'[e] = "enqueue"
          /\ groupQueues'.queue # <<>>
          /\ groupQueues'.queue[Len(groupQueues'.queue)] = e]_vars

\* C9: a triggering event of the current user, arriving while the group is
\* processing, signals the current abort controller and leaves the group's
\* queue state as it was.
C9_SameUserSignals ==
  [][\A e \in Events :
       ( /\ arrived = e - 1
         /\ arrived' = e
         /\ route'[e] \in Triggering
         /\ isGroupProcessing(groupQueues)
         /\ getCurrentProcessingUserId(groupQueues) = evUser'[e] )
       => /\ groupQueues.abortController \in aborted'
          /\ groupQueues' = groupQueues]_vars

\* C10: a generation whose abort controller has been signalled by a
\* preemption does not send its final reply afterwards.
C10_NoReplyOnceSignalled ==
  [][\A g \in Events :
       (disconnects = 0 /\ g \in aborted /\ g \notin sent) => g \notin sent']_vars

\* C11: no generation is ever begun for a preempting message; and when the
\* current generation, its abort controller signalled, ends with nothing
\* queued and nothing handed off, the group is idle afterwards: not
\* processing, no window pending, nothing scheduled to start, so that only a
\* later message can start a generation.
C11_IdleAfterPreemption ==
  /\ [](\A e \in Events : route[e] = "preempt" => gpc[e] = "none")
  /\ [][\A g \in Events :
          ( /\ g \in InFlight
            /\ gpc'[g] = "done"
            /\ g \in aborted
            /\ groupQueues.abortController = g
            /\ groupQueues.queue = <<>>
            /\ immediates = <<>> )
          => /\ ~isGroupProcessing(groupQueues')
             /\ ~isGroupInCooldown(pendingReplies')
             /\ immediates' = <<>>
             /\ \A e \in Events : gpc[e] = "none" => gpc'[e] = "none"]_vars

\* a preempted generation has ended with an empty queue, the preempting
\* message being the last one delivered, and nothing runs any more
C11_PreemptedAndEnded ==
  /\ arrived > 1
  /\ route[arrived] = "preempt"
  /\ groupQueues.exists
  /\ groupQueues.queue = <<>>
  /\ \E g \in aborted : gpc[g] = "done" /\ evUser[g] = evUser[arrived]
  /\ InFlight = {}
  /\ enqLog = <<>>

\* the tool-call and tool-result turns of generation g are all in the history
TranscriptStored(g) == Range(gmsgs[g]) \subseteq Range(history)

\* C12: a generation that was cancelled by a preemption after a tool call
\* had executed, and that ended without sending a reply, has left its
\* tool-call and tool-result turns in the history.
C12_CancelledTranscriptKept ==
  \A g \in Events :
    ( /\ disconnects = 0
      /\ gpc[g] = "done"
      /\ g \in aborted
      /\ g \notin sent
      /\ ToolMsg(g, 1) \in Range(gmsgs[g]) )
    => TranscriptStored(g)

\* a cancelled generation ended after a tool call, without a reply sent or stored
C12_CancelledAfterTool ==
  \E g \in Events :
    /\ disconnects = 0
    /\ gpc[g] = "done"
    /\ g \in aborted
    /\ g \notin sent
    /\ BotMsg(g) \notin Range(history)
    /\ ToolMsg(g, 1) \in Range(gmsgs[g])

\* C13: a generation that was not cancelled and ended without a reply after
\* a tool call had executed (its next model call threw or timed out, or gave
\* an empty reply) has left its tool-call and tool-result turns in the history.
C13_FailedTranscriptKept ==
  \A g \in Events :
    ( /\ gpc[g] = "done"
      /\ g \notin aborted
      /\ g \notin sent
      /\ ToolMsg(g, 1) \in Range(gmsgs[g]) )
    => TranscriptStored(g)

\* the step in which the suspended checkAndCompress of slot e returns
Settles(e) == hpc[e] = "summarizing" /\ hpc'[e] = "done"

\* C14: checkAndCompress is all-or-nothing: when it fails after its
\* snapshot, at whichever step, and nothing else has written the group's
\* history or memory meanwhile, the stored history and the stored memory are
\* afterwards what they were before, also when there was no memory before.
C14_AllOrNothing ==
  [][\A e \in Events :
       ( /\ Settles(e)
         /\ snap'[e].outcome \in Outcomes \ {"ok"}
         /\ history = snap[e].backup
         /\ memory = snap[e].existingMemory )
       => /\ history' = snap[e].backup
          /\ memory' = snap[e].existingMemory]_vars

\* C15: a checkAndCompress that succeeds leaves as history the kept tail,
\* shorter than the history it read by the number of compressed entries, and
\* as memory the prior memory followed by the new summary; one whose model
\* call fails leaves history and memory as they are.
C15_SwapOrUnchanged ==
  [][\A e \in Events :
       Settles(e) =>
         /\ snap'[e].outcome = "ok" =>
              /\ history' = snap[e].toKeep
              /\ Len(history') = Len(snap[e].backup) - Len(snap[e].toCompress)
              /\ snap[e].backup = snap[e].toCompress \o history'
              /\ memory' = snap[e].existingMemory \o <<snap[e].toCompress>>
         /\ snap'[e].outcome = "summarizeThrows" =>
              /\ history' = history
              /\ memory' = memory]_vars

\* C16: checkAndCompress returns at once when the history is shorter than the
\* threshold; when it is not, and there are more entries than
\* floor(maxMessages / 3), it goes on to summarize, keeping the last
\* floor(maxMessages / 3) entries and compressing all the older ones.
C16_SplitsAtThreshold ==
  [][(api'.n = api.n + 1 /\ api'.op = "checkAndCompress") =>
       LET e == api'.arg
           n == Len(history)
           k == maxMessages \div 3
       IN  IF n < compressionThreshold
             THEN hpc'[e] = "done"
             ELSE n > k =>
                    /\ hpc'[e] = "summarizing"
                    /\ snap'[e].toKeep = SubSeq(history, n - k + 1, n)
                    /\ snap'[e].toCompress = SubSeq(history, 1, n - k)]_vars

\* C17: compression does not delay the reply decision: no handler waits for
\* its checkAndCompress with the reply decision of its message still to be
\* taken.
C17_DecisionNotBehindCompression ==
  \A e \in Events : hpc[e] = "summarizing" => route[e] # "pending"

\* the step in which the generation of event e begins
Begins(e) == gpc[e] = "none" /\ gpc'[e] # "none"

\* the entries of hist from the message of event e on
sinceEvent(hist, e) ==
  {hist[i] : i \in {j \in 1..Len(hist) :
                      \E k \in 1..j : hist[k] = UserMsg(e)}}

C20_ZeroCooldownStartsAtOnce ==
  /\ [](cooldownMs = 0 => ~isGroupInCooldown(pendingReplies))
  /\ [][\A e \in Events :
          ( /\ cooldownMs = 0
            /\ route[e] = "pending"
            /\ route'[e] \in Triggering
            /\ ~isGroupProcessing(groupQueues) )
          => /\ route'[e] = "direct"
             /\ gpc[e] = "none"
             /\ gpc'[e] = "model"
             /\ isGroupProcessing(groupQueues')
             /\ groupQueues'.abortController = e
             /\ pendingReplies' = NoPending]_vars

\* with cooldown 0 a message has triggered on the idle group and its
\* generation is at its first model call
C20_StartedWithoutWindow ==
  /\ cooldownMs = 0
  /\ \E e \in Events :
       /\ route[e] = "direct"
       /\ gpc[e] = "model"
       /\ groupQueues.abortController = e
       /\ pendingReplies = NoPending

\* C21: a message that arrives while an aggregation window is pending
\* starts no generation, is not enqueued and opens no window of its own,
\* whether it triggers or not; it is in the history from its arrival on.
C21_InWindowOnlyRecorded ==
  \A e \in 1..arrived :
    evWindow[e] # NULL =>
      /\ \E i \in 1..Len(history) : history[i] = UserMsg(e)
      /\ gpc[e] = "none"
      /\ e \notin Range(enqLog)
      /\ ~(pendingReplies.exists /\ pendingReplies.triggerEvent = e)

\* C22: cancelPendingReply on a group with a window returns true and leaves
\* the group without window and timer; on a group without a window it returns
\* false and leaves everything as it was.  The handler is invoked only by the
\* timer of a window that is still there, and that step removes the window:
\* so never for a cancelled window, and never twice for one window, also when
\* the cancellation comes after the timer has run out.
C22_CancelledNeverInvoked ==
  /\ [](api.op = "cancelPendingReply" =>
          IF api.prevPending.exists
            THEN api.result = TRUE /\ pendingReplies = NoPending
            ELSE api.result = FALSE /\ pendingReplies = api.prevPending)
  /\ [][invoked' # invoked =>
          /\ pendingReplies.exists
          /\ Len(invoked') = Len(invoked) + 1
          /\ SubSeq(invoked', 1, Len(invoked)) = invoked
          /\ invoked'[Len(invoked')].triggerEvent = pendingReplies.triggerEvent
          /\ \A i \in 1..Len(invoked) :
               invoked[i].triggerEvent # pendingReplies.triggerEvent
          /\ ~pendingReplies'.exists]_vars

\* a window whose timer had run out was cancelled before the callback ran,
\* after the handler of an earlier window had been invoked
C22_CancelledAtExpiry ==
  /\ api.op = "cancelPendingReply"
  /\ api.result = TRUE
  /\ api.prevPending.timer = 0
  /\ Len(api.prevPending.aggregatedEvents) > 0
  /\ Len(invoked) = 1

\* C23: when the timer of a window expires the handler is invoked while the
\* window is still in the map, so that isGroupInCooldown is true for the group
\* at every invocation of the handler.
C23_InCooldownAtInvocation ==
  \A i \in 1..Len(invoked) : invoked[i].inCooldown

\* C24: disconnectBot leaves no group in cooldown, and no cooldown timer
\* that expires while the bot is disconnected begins a generation.
C24_DisconnectCancelsWindows ==
  /\ [][(connected /\ ~connected') => ~isGroupInCooldown(pendingReplies')]_vars
  /\ [][(~connected /\ isGroupInCooldown(pendingReplies)
           /\ ~isGroupInCooldown(pendingReplies'))
        => gpc' = gpc]_vars

\* C25: a clear of the queues (clearAllQueues, as disconnectBot calls it)
\* signals the abort controller of every generation in flight and drops
\* every queued event: right after it the group reports not processing, no
\* current user and an empty queue, and no dropped event is ever handed off.
C25_ClearSignalsAndDrops ==
  /\ [][(connected /\ ~connected') =>
          /\ InFlight \subseteq aborted'
          /\ ~isGroupProcessing(groupQueues')
          /\ getCurrentProcessingUserId(groupQueues') = NULL
          /\ getOrCreateState(groupQueues').queue = <<>>]_vars
  /\ [](Range(handLog) \cap dropped = {})

\* the chat has returned from a run without abort in which the model asked
\* for tool A, then for tool B together with a text, then answered without
\* tool calls, with a tool context and an onIntermediateOutput given
ThreeRoundRun ==
  /\ chat.pc = "returned"
  /\ ChatSignal \notin aborted
  /\ chat.toolContext /\ chat.onIntermediateOutput
  /\ Len(chat.responses) = 3
  /\ Len(chat.responses[1].toolCalls) = 1
  /\ chat.responses[1].toolCalls[1].name = "A"
  /\ Len(chat.responses[2].toolCalls) = 1
  /\ chat.responses[2].toolCalls[1].name = "B"
  /\ chat.responses[2].content = Raw(2)
  /\ chat.responses[3].toolCalls = <<>>

\* C26: after such a run the returned transcript is the tool-call turn for
\* A, A's result, the intermediate text, the tool-call turn for B, B's result
\* (2 tool-call turns, 2 tool-result turns, 1 intermediate text turn, as they
\* happened); the text was handed to onIntermediateOutput once, and the
\* content returned is the third response's.
C26_ThreeRoundTranscript ==
  ThreeRoundRun =>
    LET a == chat.responses[1].toolCalls
        b == chat.responses[2].toolCalls
    IN  /\ chat.result.toolMessages =
             <<AssistantCalls(a), ToolResult(a[1]), AssistantText(Text(2)),
               AssistantCalls(b), ToolResult(b[1])>>
        /\ chat.delivered = <<Text(2)>>
        /\ chat.result.content = chat.responses[3].content
        /\ ~chat.result.aborted
        /\ Len(chat.executed) = 2

\* the three-round run has returned a final text
C26_ThreeRoundsReturned ==
  /\ ThreeRoundRun
  /\ chat.result.content = Raw(3)
  /\ Len(chat.result.toolMessages) = 5

\* C27: once the signal is aborted the tool loop executes no further tool
\* and issues no further model call, and it ends by returning aborted = true
\* together with the transcript accumulated up to that point.
C27_AbortStopsLoop ==
  /\ [][(ChatSignal \in aborted) =>
          (chat'.executed = chat.executed /\ chat'.modelCalls = chat.modelCalls)]_vars
  /\ []((chat.inLoop /\ ChatSignal \in aborted
           /\ chat.pc \in {"returned", "thrown"})
        => /\ chat.pc = "returned"
           /\ chat.result.aborted
           /\ chat.result.toolMessages = chat.toolMessages)

\* C28: a model call carries the tool schemas exactly when a tool is enabled
\* and a tool context was given, and without a tool context no tool call of
\* any response is executed.
C28_ToolsOnlyWithContext ==
  /\ \A i \in 1..Len(chat.modelCalls) :
       chat.modelCalls[i].tools = (toolsEnabled /\ chat.toolContext)
  /\ ~chat.toolContext => chat.executed = <<>> /\ ~chat.inLoop

\* with a tool enabled but no tool context, the model has answered a plain
\* call with tool calls, and the chat has returned without executing them
C28_ToolCallIgnored ==
  /\ toolsEnabled /\ ~chat.toolContext
  /\ chat.pc = "returned"
  /\ Len(chat.responses) = 1
  /\ Len(chat.responses[1].toolCalls) = 2
  /\ chat.modelCalls = <<[tools |-> FALSE, aborted |-> FALSE]>>

\* the tool calls of a sequence of responses, in order
RECURSIVE AllToolCalls(_)
AllToolCalls(responses) ==
  IF responses = <<>> THEN <<>>
  ELSE LET n == Len(responses)
       IN  AllToolCalls(SubSeq(responses, 1, n - 1)) \o responses[n].toolCalls

\* C29: a tool call whose arguments do not parse is executed like any other,
\* with {} as arguments: in a run that returns without abort every tool call
\* of every response has been executed, in order, with its parsed arguments
\* or with {}, each has its tool-result turn, and every response was followed
\* by the next model call.
C29_BadArgumentsStillExecuted ==
  (chat.pc = "returned" /\ chat.inLoop /\ ChatSignal \notin aborted) =>
    LET calls == AllToolCalls(chat.responses)
    IN  /\ Len(chat.executed) = Len(calls)
        /\ \A k \in 1..Len(calls) :
             /\ chat.executed[k].id = calls[k].id
             /\ chat.executed[k].name = calls[k].name
             /\ chat.executed[k].args =
                  IF calls[k].arguments = "bad" THEN "empty" ELSE "parsed"
             /\ \E m \in 1..Len(chat.result.toolMessages) :
                  chat.result.toolMessages[m] = ToolResult(calls[k])
        /\ Len(chat.modelCalls) = Len(chat.responses)
        /\ chat.responses[Len(chat.responses)].toolCalls = <<>>

\* a round whose first tool call had unparsable arguments went on with its
\* second tool call and the next model call, and the chat returned its text
C29_RoundWentOn ==
  /\ chat.pc = "returned"
  /\ ChatSignal \notin aborted
  /\ Len(chat.responses) = 2
  /\ Len(chat.responses[1].toolCalls) = 2
  /\ chat.responses[1].toolCalls[1].arguments = "bad"
  /\ chat.responses[1].toolCalls[2].arguments = "json"
  /\ Len(chat.executed) = 2
  /\ chat.executed[1].args = "empty"
  /\ chat.result.content = Raw(2)

\* the ids of the tool calls of a turn
CallIds(turn) == {turn.tool_calls[i] : i \in 1..Len(turn.tool_calls)}

\* in out, the tool turn at i answers a tool call of the assistant turn at j
\* that no tool turn between them has answered
Answers(out, i, j) ==
  /\ j < i
  /\ out[j].role = "assistant"
  /\ out[i].tool_call_id \in CallIds(out[j])
  /\ \A k \in (j + 1)..(i - 1) :
       ~(out[k].role = "tool" /\ out[k].tool_call_id = out[i].tool_call_id)

\* C30: in the sequence mergeConsecutiveMessages returns every tool turn
\* answers a not yet answered tool call of an earlier assistant turn, every
\* assistant turn with tool calls is followed by a tool turn for one of them
\* (none is left without any result, in particular not as last turn), and no
\* two adjacent turns of the input with the same role and without tool calls
\* are both still there.
C30_SequenceIsWellFormed ==
  api.op = "mergeConsecutiveMessages" =>
    LET in == api.arg
        out == api.result
    IN  /\ \A i \in 1..Len(out) :
             out[i].role = "tool" => \E j \in 1..Len(out) : Answers(out, i, j)
        /\ \A j \in 1..Len(out) :
             (out[j].role = "assistant" /\ out[j].tool_calls # <<>>) =>
               \E i \in (j + 1)..Len(out) :
                 out[i].role = "tool" /\ out[i].tool_call_id \in CallIds(out[j])
        /\ \A i \in 1..(Len(in) - 1) :
             ( /\ in[i].role = in[i + 1].role
               /\ in[i].role \in {"user", "assistant"}
               /\ in[i].tool_calls = <<>> /\ in[i + 1].tool_calls = <<>> )
             => ~(\E a, b \in 1..Len(out) : out[a] = in[i] /\ out[b] = in[i + 1])

\* the k-th event enqueued after the startProcessing that was the first call
QueuedEvent(k) == k + 1

\* startProcessing was the first call, the group has been processing since,
\* and the eleven calls after it were all enqueueMessage, each for a new event
ElevenWhileBusy ==
  /\ api.n = MAX_QUEUE_SIZE + 2
  /\ api.op = "enqueueMessage"
  /\ isGroupProcessing(groupQueues)
  /\ groupQueues.abortController = 1
  /\ api.prev.queue = [i \in 1..MAX_QUEUE_SIZE |-> QueuedEvent(i)]

\* C31 as stated: when the 11th event arrives on the busy group the 2nd is
\* evicted and the queue retains the 3rd to the 11th, in arrival order.
C31_SecondEvicted ==
  ElevenWhileBusy =>
    groupQueues.queue = [i \in 1..(MAX_QUEUE_SIZE - 1) |-> QueuedEvent(i + 2)]

\* C31, amended: when the 11th event arrives on the busy group the 1st, the
\* oldest, is evicted and the queue retains the 2nd to the 11th, in arrival
\* order.
C31_OldestEvicted ==
  ElevenWhileBusy =>
    /\ groupQueues.queue = [i \in 1..MAX_QUEUE_SIZE |-> QueuedEvent(i + 1)]
    /\ evicted(api.prev) = {QueuedEvent(1)}
    /\ QueuedEvent(1) \notin Range(groupQueues.queue)

\* the 11th event has been enqueued on the busy group
C31_EleventhEnqueued ==
  /\ ElevenWhileBusy
  /\ groupQueues.queue[Len(groupQueues.queue)] = QueuedEvent(MAX_QUEUE_SIZE + 1)

\* C32: no window is pending while a generation of the group is in flight,
\* and the timer callback of a window never calls startProcessing on a group
\* that is processing.
C32_NoWindowWhileInFlight ==
  /\ [](~(isGroupInCooldown(pendingReplies) /\ InFlight # {}))
  /\ [][(timerMayInvoke(pendingReplies) /\ ~isGroupInCooldown(pendingReplies'))
        => ~isGroupProcessing(groupQueues)]_vars

\* C33: when a generation that a clear of the queues has cancelled ends
\* while the group is processing for a newer generation, its finishProcessing
\* leaves the group's state as it is: processing, the abort controller and
\* the queue of the newer generation are untouched.
C33_StaleEndKeepsNewerLock ==
  [][\A g \in Events :
       ( /\ g \in InFlight
         /\ gpc'[g] = "done"
         /\ g \in aborted
         /\ disconnects > 0
         /\ isGroupProcessing(groupQueues)
         /\ groupQueues.abortController # g
         /\ groupQueues.abortController \in InFlight )
       => groupQueues' = groupQueues]_vars

\* C34: at most one checkAndCompress of the group is suspended in its
\* summarization at a time, and a checkAndCompress that saves a memory
\* summarizes no history entry that the memory it replaces already holds in
\* a summary.
C34_OneCompressionAtATime ==
  /\ [](\A e1, e2 \in Events :
          (hpc[e1] = "summarizing" /\ hpc[e2] = "summarizing") => e1 = e2)
  /\ [][\A e \in Events :
          (Settles(e) /\ memory' # memory)
          => \A m \in Range(snap[e].toCompress) :
               \A i \in 1..Len(memory) : m \notin Range(memory[i])]_vars

\* C35: in the sequence mergeConsecutiveMessages returns, every assistant
\* turn with tool calls is directly followed by a run of tool turns that
\* holds an answer to each of its tool-call ids: each id is answered before
\* the next turn that is not a tool turn and before the end of the sequence.
C35_EveryCallAnsweredDirectly ==
  api.op = "mergeConsecutiveMessages" =>
    LET out == api.result
    IN  \A j \in 1..Len(out) :
          (out[j].role = "assistant" /\ out[j].tool_calls # <<>>) =>
            \A id \in CallIds(out[j]) :
              \E i \in (j + 1)..Len(out) :
                /\ out[i].role = "tool"
                /\ out[i].tool_call_id = id
                /\ \A k \in (j + 1)..i : out[k].role = "tool"

\* C36: a generation hands no intermediate text to client.sendGroupMessage
\* once its abort signal has been signalled, also when the signal arrived
\* during the random delay that precedes the send.
C36_NoSendAfterSignal ==
  [][sent' # sent => ChatSignal \notin aborted]_vars

\* C37: the handling of an inbound message of a group that is not
\* whitelisted or whose settings have enabled = false returns at once: it
\* leaves the stored history and memory, the group's window, queue and abort
\* controllers, every processReply and every pending callback as they are,
\* and starts no compression.
C37_IgnoredMessageChangesNothing ==
  [][(arrived' = arrived + 1 /\ ~(whitelisted /\ groupEnabled))
     => (UNCHANGED <<history, memory, snap, pendingReplies, groupQueues,
                     aborted, immediates, genVars, enqLog, dropped>>
         /\ hpc'[arrived'] = "done")]_vars

\* a message has been delivered to a group that is not handled, whose
\* history has reached the compression threshold
C37_IgnoredAtThreshold ==
  /\ ~(whitelisted /\ groupEnabled)
  /\ arrived >= 1
  /\ hpc[arrived] = "done"
  /\ route[arrived] = "ignored"
  /\ Len(history) >= compressionThreshold

\* the number of rounds C38 states for a call: the requested value clamped
\* to 1..50, and 10 when none is requested
statedRounds(args) ==
  IF args.hasMaxRounds THEN clampRounds(args.max_rounds) ELSE DEFAULT_ROUNDS

\* C38: an executeSubagent call makes at most maxRounds model calls with
\* tools and at most one without, where maxRounds is the requested value
\* clamped to 1..50 (10 when none is requested); the call without tools comes
\* only after maxRounds calls with tools, and the subagent tool is never among
\* the tools offered.
C38_BoundedRounds ==
  api.op = "executeSubagent" =>
    /\ chat.withTools <= statedRounds(api.arg)
    /\ chat.withoutTools <= 1
    /\ chat.withoutTools = 1 => chat.withTools = statedRounds(api.arg)
    /\ "subagent" \notin chat.offered

\* C39: while disconnectBot is the last of connectBot, reconnectBot and
\* disconnectBot to have been called, there is no client, no reconnect timer
\* is set and the timer's callback begins no connection attempt, also when
\* disconnectBot was called while an attempt begun by the timer was awaiting
\* its connection.
C39_StaysDisconnected ==
  /\ [](api.op = "disconnectBot" => (~connected /\ ~reconnectTimer))
  /\ [][(api.op = "disconnectBot" /\ api'.op = "disconnectBot")
        => ~(reconnectTimer /\ ~reconnectTimer')]_vars

====
